---------------------------- MODULE Spec2Model ----------------------------
(***************************************************************************)
(* A model of goastro/indiclient: the INDI client's connection engine.     *)
(*                                                                         *)
(* The client (INDIClient) holds a connection, two buffered channels       *)
(* (read, write), a device registry (devices, a sync.Map) and a table of   *)
(* BLOB stream subscribers (blobStreams).  Connect starts three            *)
(* goroutines per connection: the socket reader, the dispatcher (both in   *)
(* startRead) and the socket writer (startWrite).                          *)
(*                                                                         *)
(* Go maps are reference values.  A Device struct stored in the registry   *)
(* carries five maps; copying the struct (sync.Map Load, Devices) copies   *)
(* the map references, not the maps.  The model keeps the maps in a heap:  *)
(* dm holds the five property maps of a Device (they are allocated         *)
(* together in findOrCreateDevice and a Device's map fields are never      *)
(* reassigned), vm holds the Values map of a property.                     *)
(*                                                                         *)
(* Wall-clock fields (LastUpdated, Message.Timestamp) are left out: they   *)
(* are read from time.Now() and no modelled decision depends on them.      *)
(***************************************************************************)
EXTENDS Integers, Sequences, FiniteSets, TLC

-----------------------------------------------------------------------------
(* Bounds of the model *)

\* connections the dialer hands out in one run
MaxConnects == 2
\* elements the socket readers decode in one run
MaxRead == 3
\* facade calls in one run
MaxCalls == 3
\* NewINDIClient's bufferSize: the capacity of the read and write channels
BufferSize == 1
\* reads with a buffer smaller than a round of io.Copy that a subscriber
\* makes on one stream
MaxShortReads == 1
\* elements the socket readers decode in one run of the connection engine
MaxLifeRead == 1

\* the subscriptions made where two goroutines subscribe side by side
MaxStreams == 2

-----------------------------------------------------------------------------
(* Go values *)

Kinds == {"Text", "Switch", "Number", "Light", "Blob"}

PropertyStateBusy == "Busy"
PropertyPermissionReadOnly == "ro"

ErrNone == "nil"
ErrDeviceNotFound == "device not found"
ErrPropertyNotFound == "property not found"
ErrPropertyValueNotFound == "property value not found"
ErrPropertyReadOnly == "property read only"
ErrPropertyWithoutDevice == "property specified without device"
ErrInvalidBlobEnable == "invalid BlobEnable value"

\* a Go map with no entries
EmptyMap == [x \in {} |-> x]

\* m[k] = v
MapPut(m, k, v) == [x \in (DOMAIN m) \cup {k} |-> IF x = k THEN v ELSE m[x]]

\* delete(m, k)
MapDel(m, k) == [x \in (DOMAIN m) \ {k} |-> m[x]]

\* strings.TrimSpace on a string given as a sequence of characters.  A
\* character is a string of length one, or the name of its code point when
\* it cannot be written in one ("U+00A0").  unicode.IsSpace holds for
\* \t \n \v \f \r, the space, U+0085, U+00A0 and the category Z.
IsSpace(ch) ==
    ch \in {"\t", "\n", "U+000B", "\f", "\r", " ", "U+0085", "U+00A0", "U+1680",
            "U+2000", "U+2001", "U+2002", "U+2003", "U+2004", "U+2005", "U+2006",
            "U+2007", "U+2008", "U+2009", "U+200A", "U+2028", "U+2029", "U+202F",
            "U+205F", "U+3000"}

RECURSIVE TrimLeft(_)
TrimLeft(s) == IF s # <<>> /\ IsSpace(Head(s)) THEN TrimLeft(Tail(s)) ELSE s

RECURSIVE TrimRight(_)
TrimRight(s) ==
    IF s # <<>> /\ IsSpace(s[Len(s)]) THEN TrimRight(SubSeq(s, 1, Len(s) - 1)) ELSE s

TrimSpace(s) == TrimRight(TrimLeft(s))


-----------------------------------------------------------------------------
(* Elements on the wire (xmlmodels.go).  One record shape serves the twelve *)
(* inbound element types; a field an element type does not have is empty.   *)
(* The group attribute of a def*Vector is a sequence of characters, empty   *)
(* unless the element is written [Elem(...) EXCEPT !.Group = ...].          *)

Elem(type, dev, name, state, perm, timeout, msg, items) ==
    [type |-> type, Device |-> dev, Name |-> name, State |-> state, Perm |-> perm,
     Timeout |-> timeout, Message |-> msg, Items |-> items, Group |-> <<>>]

\* an inner value (defText, oneText, oneBLOB, ...): name, character data, format
One(name, value, format) == [Name |-> name, Value |-> value, Format |-> format]

NoItem == Elem("none", "", "", "", "", 0, "", <<>>)

\* the zero Device value, Device{}
NilDevice == [Name |-> "", Maps |-> 0, Messages |-> <<>>]

\* the zero property value
NilProp == [State |-> "", Permissions |-> "", Timeout |-> 0, Messages |-> <<>>, Values |-> 0,
            Group |-> <<>>]

\* the five maps findOrCreateDevice allocates for a new Device
NewMaps == [k \in Kinds |-> EmptyMap]

-----------------------------------------------------------------------------
(* The registry: R = [devices, dm, vm].  devices is the sync.Map (device    *)
(* name -> Device struct), dm[id] the five property maps of a Device,       *)
(* vm[id] a property's Values map.                                          *)

Reg(d, m, v) == [devices |-> d, dm |-> m, vm |-> v]

findDevice(devs, name) ==
    IF name \in DOMAIN devs
        THEN [dev |-> devs[name], err |-> ErrNone]
        ELSE [dev |-> NilDevice, err |-> ErrDeviceNotFound]

\* A variant that makes a new Device with five new maps every time.
findOrCreateDeviceAnew(R, name) ==
    [device |-> [Name |-> name, Maps |-> Len(R.dm) + 1, Messages |-> <<>>],
     dm |-> Append(R.dm, NewMaps)]

\* the Device found, or a new one with five new maps; dm grows when it is new
findOrCreateDevice(R, name) ==
    LET f == findDevice(R.devices, name) IN
    IF f.err = ErrDeviceNotFound
        THEN [device |-> [Name |-> name, Maps |-> Len(R.dm) + 1, Messages |-> <<>>],
              dm |-> Append(R.dm, NewMaps)]
        ELSE [device |-> f.dev, dm |-> R.dm]

\* prop.Values[val.Name] = {Value: TrimSpace(val.Value)} for each val, in order
RECURSIVE defValues(_, _)
defValues(items, vals) ==
    IF items = <<>> THEN vals
    ELSE defValues(Tail(items),
                   MapPut(vals, Head(items).Name,
                          [Value |-> TrimSpace(Head(items).Value), Size |-> 0]))

\* prop.Values[val.Name] = BlobValue{Label, Name}: a defBLOB carries no value
RECURSIVE defBlobValues(_, _)
defBlobValues(items, vals) ==
    IF items = <<>> THEN vals
    ELSE defBlobValues(Tail(items),
                       MapPut(vals, Head(items).Name, [Value |-> "", Size |-> 0]))

\* if len(item.Message) > 0 { prop.Messages = append(prop.Messages, ...) }
appendMessage(msgs, m) == IF m # "" THEN Append(msgs, m) ELSE msgs

\* the property a def*Vector builds, values being its new Values map.  The
\* literals of defLightVector and defBlobVector set no Permissions, and none
\* of the five sets Timeout
defProperty(kind, item, values) ==
    [State |-> item.State,
     Permissions |-> IF kind \in {"Light", "Blob"} THEN "" ELSE item.Perm,
     Timeout |-> 0,
     Group |-> item.Group,
     Messages |-> appendMessage(<<>>, item.Message),
     Values |-> values]

\* A variant that gives every named value an entry, known or not.
RECURSIVE setValuesAdding(_, _)
setValuesAdding(items, vals) ==
    IF items = <<>> THEN vals
    ELSE setValuesAdding(Tail(items),
                         MapPut(vals, Head(items).Name,
                                [Value |-> TrimSpace(Head(items).Value), Size |-> 0]))

\* for each val: if prop.Values has val.Name, its Value becomes the trimmed
\* character data; a name the property does not have is skipped
RECURSIVE setValues(_, _)
setValues(items, vals) ==
    IF items = <<>> THEN vals
    ELSE setValues(Tail(items),
                   IF Head(items).Name \in DOMAIN vals
                       THEN [vals EXCEPT ![Head(items).Name].Value =
                                             TrimSpace(Head(items).Value)]
                       ELSE vals)

\* the order in which delProperty deletes the name from the five maps
DelOrder == <<"Text", "Number", "Switch", "Light", "Blob">>


-----------------------------------------------------------------------------
(* BLOB payloads: encoding/base64, StdEncoding, as base64.NewDecoder reads  *)
(* it.  Strings are sequences of characters, bytes are numbers 0..255.      *)

B64Alphabet ==
    <<"A","B","C","D","E","F","G","H","I","J","K","L","M","N","O","P","Q","R","S","T",
      "U","V","W","X","Y","Z","a","b","c","d","e","f","g","h","i","j","k","l","m","n",
      "o","p","q","r","s","t","u","v","w","x","y","z","0","1","2","3","4","5","6","7",
      "8","9","+","/">>

IsB64(ch) == \E i \in DOMAIN B64Alphabet : B64Alphabet[i] = ch

B64Val(ch) == (CHOOSE i \in DOMAIN B64Alphabet : B64Alphabet[i] = ch) - 1

\* the decoder's newlineFilteringReader drops \r and \n
DropNewlines(s) == SelectSeq(s, LAMBDA ch : ch \notin {"\n", "\r"})

\* the decoded bytes, after out, and whether the input was corrupt; on
\* corrupt input the bytes of the quanta before the corrupt one have been
\* produced.  A quantum of four characters of the alphabet gives three bytes;
\* the first quantum that is not of this form ends the input with its
\* padding, or is corrupt
DecodeQuanta(s, out) ==
    LET nq == Len(s) \div 4
        Full(q) == \A n \in (4 * q - 3)..(4 * q) : IsB64(s[n])
        notFull == {q \in 1..nq : ~Full(q)}
        stop == IF notFull = {} THEN nq + 1
                ELSE CHOOSE q \in notFull : \A r \in notFull : q <= r
        ByteAt(n) ==
            LET q == (n - 1) \div 3
                a == B64Val(s[4 * q + 1])
                b == B64Val(s[4 * q + 2])
                c == B64Val(s[4 * q + 3])
                d == B64Val(s[4 * q + 4])
            IN CASE (n - 1) % 3 = 0 -> a * 4 + b \div 16
                 [] (n - 1) % 3 = 1 -> (b % 16) * 16 + c \div 4
                 [] OTHER -> (c % 4) * 64 + d
        body == out \o [n \in 1..(3 * (stop - 1)) |-> ByteAt(n)]
    IN IF stop = nq + 1 THEN [data |-> body, err |-> Len(s) % 4 # 0]
       ELSE LET a == s[4 * stop - 3]
                b == s[4 * stop - 2]
                c == s[4 * stop - 1]
                d == s[4 * stop]
                rest == SubSeq(s, 4 * stop + 1, Len(s))
            IN IF ~(IsB64(a) /\ IsB64(b)) THEN [data |-> body, err |-> TRUE]
               ELSE IF c = "=" /\ d = "="
                   THEN [data |-> Append(body, B64Val(a) * 4 + B64Val(b) \div 16),
                         err |-> rest # <<>>]
               ELSE IF ~IsB64(c) THEN [data |-> body, err |-> TRUE]
               ELSE IF d = "="
                   THEN [data |-> body \o <<B64Val(a) * 4 + B64Val(b) \div 16,
                                            (B64Val(b) % 16) * 16 + B64Val(c) \div 4>>,
                         err |-> rest # <<>>]
               ELSE [data |-> body, err |-> TRUE]

\* len(decoder.buf): the encoded characters one Read of the decoder takes in
DecoderBuf == 1024

\* the buffer io.Copy reads into
CopyBuf == 32768

\* the element of a set of one element
Only(S) == CHOOSE x \in S : TRUE

\* base64.NewDecoder over strings.NewReader(s): rest is what the string
\* reader has left, nbuf the characters in d.buf, eof whether the string
\* reader has returned io.EOF, err the error the decoder keeps
NewDecoder(s) == [rest |-> s, nbuf |-> <<>>, eof |-> FALSE, err |-> ""]

\* newlineFilteringReader.Read into n bytes: what the string reader yields,
\* less \r and \n, read again when that leaves nothing
RECURSIVE FilteredRead(_, _)
FilteredRead(rest, n) ==
    LET m == IF Len(rest) < n THEN Len(rest) ELSE n
        data == DropNewlines(SubSeq(rest, 1, m))
        left == SubSeq(rest, m + 1, Len(rest))
    IN IF m = 0 THEN [data |-> <<>>, eof |-> TRUE, rest |-> rest]
       ELSE IF data # <<>> THEN [data |-> data, eof |-> FALSE, rest |-> left]
       ELSE FilteredRead(left, n)

\* for d.nbuf < 4 && d.readErr == nil { read into d.buf[d.nbuf:] }
RECURSIVE Refill(_)
Refill(d) ==
    IF Len(d.nbuf) >= 4 \/ d.eof THEN d
    ELSE LET Read(r) == [d EXCEPT !.nbuf = @ \o r.data, !.eof = r.eof, !.rest = r.rest]
         IN Refill(Only({Read(r) : r \in {FilteredRead(d.rest, DecoderBuf - Len(d.nbuf))}}))

\* decoder.Read into a buffer of CopyBuf bytes: the decoder after it, the
\* bytes it returns and the error it returns with them.  The whole quanta in
\* d.buf are decoded, at most DecoderBuf characters to DecoderBuf / 4 * 3
\* bytes; bytes decoded before a corrupt quantum come with the error
decoderRead(d) ==
    IF d.err # "" THEN [d |-> d, data |-> <<>>, err |-> d.err]
    ELSE LET Decoded(f, nr, q) ==
                 LET e == IF q.err THEN "corrupt input" ELSE "" IN
                 [d |-> [f EXCEPT !.nbuf = SubSeq(@, nr + 1, Len(@)), !.err = e],
                  data |-> q.data, err |-> e]
             Filled(f) ==
                 IF Len(f.nbuf) < 4
                    THEN LET e == IF f.nbuf # <<>> THEN "unexpected EOF" ELSE "EOF" IN
                         [d |-> [f EXCEPT !.err = e], data |-> <<>>, err |-> e]
                    ELSE LET nr == (Len(f.nbuf) \div 4) * 4 IN
                         Only({Decoded(f, nr, q) :
                                  q \in {DecodeQuanta(SubSeq(f.nbuf, 1, nr), <<>>)}})
         IN Only({Filled(f) : f \in {Refill(d)}})

\* io.Copy from the decoder d, out being the bytes copied so far: Read after
\* Read until one returns an error.  io.EOF ends the copy with no error; with
\* any other error the copy fails, after the bytes that came with the error
RECURSIVE copyAll(_, _)
copyAll(d, out) ==
    LET Copied(r) ==
            IF r.err = "EOF" THEN [data |-> out \o r.data, err |-> FALSE]
            ELSE IF r.err # "" THEN [data |-> out \o r.data, err |-> TRUE]
            ELSE copyAll(r.d, out \o r.data)
    IN Only({Copied(r) : r \in {decoderRead(d)}})

\* r := base64.NewDecoder(base64.StdEncoding, strings.NewReader(s)) and
\* io.Copy(dest, r): the bytes that reach dest, and whether the copy failed
base64Decode(s) == copyAll(NewDecoder(s), <<>>)

\* fmt.Sprintf("%s_%s_%s", device, property, value): the blobStreams key
StreamKey(d, p, v) == d \o "_" \o p \o "_" \o v

\* fmt.Sprintf("%s_%s_%s%s", ...): the sink file of a oneBLOB
SinkName(d, p, v, format) == StreamKey(d, p, v) \o format

-----------------------------------------------------------------------------
(* Device.Groups.  A group label is a sequence of characters.               *)

\* a < b for Go strings: byte by byte, a proper prefix before its extensions.
\* Bytes has the characters of this model in the order of their bytes.
RECURSIVE StringLess(_, _)
StringLess(a, b) ==
    LET Bytes == <<" ", "A", "B", "a", "b">>
        ByteOf(ch) == CHOOSE i \in DOMAIN Bytes : Bytes[i] = ch
    IN IF b = <<>> THEN FALSE
       ELSE IF a = <<>> THEN TRUE
       ELSE IF Head(a) # Head(b) THEN ByteOf(Head(a)) < ByteOf(Head(b))
       ELSE StringLess(Tail(a), Tail(b))

\* sort.Strings on the keys of temp: ascending, each key once
RECURSIVE SortStrings(_)
SortStrings(S) ==
    IF S = {} THEN <<>>
    ELSE LET least == CHOOSE x \in S : \A y \in S \ {x} : StringLess(x, y)
         IN <<least>> \o SortStrings(S \ {least})

-----------------------------------------------------------------------------
(* The state of one client and of what it is connected to *)

VARIABLES
    conn,         \* c.conn: 0 is nil, n the n-th connection the dialer returned
    read,         \* c.read: 0 is nil, n the channel made by the n-th Connect
    write,        \* c.write, likewise
    bufferSize,   \* c.bufferSize: the capacity Connect gives both channels
    devices,      \* c.devices
    dm,           \* heap: the property maps of the Devices
    vm,           \* heap: the Values maps of the properties
    blobStreams,  \* c.blobStreams: key -> the writers map stored under it
    wm,           \* heap: the writers maps, each the set of pipes in it
    spc,          \* where each goroutine inside Get/CloseBlobStream is, its locals
    pipes,        \* the io.Pipe of each subscription: whether its writer and its
                  \* reader are closed, the bytes read from it, and how many
                  \* Reads were short
    files,        \* c.fs: file name -> bytes
    inq,          \* buffer of each read channel
    inClosed,     \* the read channels that have been closed
    outq,         \* buffer of each write channel
    outClosed,    \* the write channels that have been closed
    connClosed,   \* the connections Close was called on
    rdErr,        \* what each reader's decoder returns next: none, eof, err, or
                  \* nil when the reader was started with a nil stream
    sent,         \* what has been written to each connection
    upc,          \* where the calling goroutine is
    uloc,         \* its locals
    ret,          \* the error its last call returned
    rpc,          \* where each socket reader goroutine is
    ritem,        \* the element a reader has decoded and not yet sent
    rloc,         \* a reader's locals inside the Disconnect it calls on io.EOF
    dpc,          \* where each dispatcher goroutine is
    dloc,         \* a dispatcher's locals inside a handler
    wpc,          \* where each socket writer goroutine is
    wloc,         \* a writer's locals: the command in hand, the stream it holds
    panic,        \* the run-time panic that ended the process, "" if none
    snap,         \* the Device structs the last Devices call returned
    nconn,        \* connections dialled so far
    nread,        \* elements decoded so far
    ncalls,       \* facade command calls so far
    snapView,     \* history: what snap showed when it was taken
    busyMarks,    \* history: properties a Set call marked Busy, untouched since
    declPerm,     \* history: the perm of the last def*Vector of each property
    readLog,      \* history: the elements each reader has decoded, in order
    applied,      \* history: the elements each dispatcher has taken, in order
    queued,       \* history: the commands put on each write channel, in order
    subs          \* history: the key of each id GetBlobStream returned, and the
                  \* ids CloseBlobStream was called with

vars == <<conn, read, write, bufferSize, devices, dm, vm, blobStreams, wm, spc, pipes,
          files, inq, inClosed, outq, outClosed, connClosed, rdErr, sent, upc, uloc, ret, rpc,
          ritem, rloc, dpc, dloc, wpc, wloc, panic, snap, nconn, nread, ncalls, snapView,
          busyMarks, declPerm, readLog, applied, queued, subs>>

registry == <<devices, dm, vm>>
clientFields == <<conn, read, write, bufferSize>>
streams == <<blobStreams, wm, spc, pipes, files>>
channels == <<inq, inClosed, outq, outClosed>>
socket == <<connClosed, rdErr, sent>>
user == <<upc, uloc, ret>>
workers == <<rpc, ritem, rloc, dpc, dloc, wpc, wloc>>
counters == <<nconn, nread, ncalls>>
history == <<snapView, busyMarks, declPerm, readLog, applied, queued, subs>>

Conns == 1..MaxConnects

\* the goroutines that call GetBlobStream and CloseBlobStream side by side
Subscribers == {1, 2}

\* the locals of such a call: the id and key, and the writers map in hand.
\* copies is history: the copies for the key that were under way when the
\* call began
NoSloc == [pc |-> "idle", id |-> 0, key |-> "", writers |-> 0, err |-> ErrNone,
           copies |-> {}]

\* what c.blobStreams.Load(key) gives: the pipes in the map stored under key
Writers(key) == IF key \in DOMAIN blobStreams THEN wm[blobStreams[key]] ELSE {}

\* the key of the entry the dispatcher of connection i is at
EntryKey(i) ==
    StreamKey(dloc[i].item.Device, dloc[i].item.Name, dloc[i].item.Items[dloc[i].j].Name)

\* the copies for the key that are under way: the connection, the number of
\* the element on it and the number of the entry in the element
Copies(key) ==
    {<<i, Len(applied[i]), dloc[i].j>> :
        i \in {n \in Conns : dpc[n] = "copy" /\ EntryKey(n) = key}}

R0 == Reg(devices, dm, vm)

SetReg(R) == devices' = R.devices /\ dm' = R.dm /\ vm' = R.vm

NoLoc == [op |-> "", kind |-> "", dev |-> "", prop |-> "", val |-> "",
          device |-> NilDevice, p |-> NilProp, cmd |-> NoItem,
          rdr |-> <<>>, fileName |-> "", length |-> 0, groups |-> <<>>,
          nc |-> 0, cerr |-> ErrNone, todo |-> {}, seen |-> {}, got |-> {},
          j |-> 0, temp |-> {}, from |-> 0]

\* the locals of a c.devices.Range: the keys that were in the map when it
\* was entered and that it has not come to yet, and the keys it has visited
NoRange == [todo |-> {}, seen |-> {}]

\* the locals of a socket writer: the command it took from the channel and
\* the stream it was started with (0 is nil)
NoWloc == [item |-> NoItem, conn |-> 0]

\* the locals of a dispatcher inside a handler: the element, the Device and
\* the property in hand, the index of a loop; in setBlobVector the file and
\* writers of the entry, the decoder, the bytes of the round of io.Copy
\* (chunk, and rerr the error read with them), the writer the round has come
\* to (k) and the bytes that writer has taken (off), the bytes written; in
\* delProperty the locals of its Range, and in setBlobVector the writers map
\* loaded (wmap, 0 for none) and the locals of the range over it.  The rest is
\* history: was is the registry, and wasSubs the pipes under each key, when
\* the element was taken; abandoned is the pipes under the entry's key whose
\* reader was closed when the entry was taken up
NoDloc == [item |-> NoItem, device |-> NilDevice, prop |-> NilProp, j |-> 0,
           fname |-> "", ws |-> <<>>, dec |-> NewDecoder(<<>>), chunk |-> <<>>,
           rerr |-> "", k |-> 0, off |-> 0, written |-> 0, range |-> NoRange,
           wmap |-> 0, was |-> Reg(EmptyMap, <<>>, <<>>), wasSubs |-> EmptyMap,
           abandoned |-> {}]

\* what a holder of the Device struct d sees through its maps
DeviceView(d) ==
    [Name |-> d.Name, Messages |-> d.Messages,
     Props |-> [k \in Kinds |->
                  [n \in DOMAIN dm[d.Maps][k] |->
                     [State |-> dm[d.Maps][k][n].State,
                      Permissions |-> dm[d.Maps][k][n].Permissions,
                      Timeout |-> dm[d.Maps][k][n].Timeout,
                      Messages |-> dm[d.Maps][k][n].Messages,
                      Values |-> vm[dm[d.Maps][k][n].Values]]]]]

\* the client NewINDIClient returns for the given bufferSize
NewINDIClient(size) ==
    /\ conn = 0 /\ read = 0 /\ write = 0 /\ bufferSize = size
    /\ devices = EmptyMap /\ dm = <<>> /\ vm = <<>>
    /\ blobStreams = EmptyMap /\ wm = <<>> /\ pipes = <<>> /\ files = EmptyMap
    /\ spc = [c \in Subscribers |-> NoSloc]
    /\ inq = [i \in Conns |-> <<>>] /\ inClosed = {}
    /\ outq = [i \in Conns |-> <<>>] /\ outClosed = {}
    /\ connClosed = {} /\ rdErr = [i \in Conns |-> "none"]
    /\ sent = [i \in Conns |-> <<>>]
    /\ upc = "idle" /\ uloc = NoLoc /\ ret = ErrNone
    /\ rpc = [i \in Conns |-> "off"] /\ ritem = [i \in Conns |-> NoItem]
    /\ rloc = [i \in Conns |-> NoRange]
    /\ dpc = [i \in Conns |-> "off"] /\ dloc = [i \in Conns |-> NoDloc]
    /\ wpc = [i \in Conns |-> "off"] /\ wloc = [i \in Conns |-> NoWloc]
    /\ panic = ""
    /\ snap = {} /\ snapView = {}
    /\ nconn = 0 /\ nread = 0 /\ ncalls = 0
    /\ busyMarks = {} /\ declPerm = EmptyMap
    /\ readLog = [i \in Conns |-> <<>>] /\ applied = [i \in Conns |-> <<>>]
    /\ queued = [i \in Conns |-> <<>>]
    /\ subs = [key |-> EmptyMap, closed |-> {}, during |-> {}]

Init == NewINDIClient(BufferSize)

-----------------------------------------------------------------------------
(* History kept for the properties below; no action reads it. *)

PKey(kind, d, p) == <<kind, d, p>>

KindOf(type) ==
    CASE type \in {"defTextVector", "setTextVector"} -> "Text"
      [] type \in {"defSwitchVector", "setSwitchVector"} -> "Switch"
      [] type \in {"defNumberVector", "setNumberVector"} -> "Number"
      [] type \in {"defLightVector", "setLightVector"} -> "Light"
      [] type \in {"defBLOBVector", "setBLOBVector"} -> "Blob"
      [] OTHER -> ""

IsDef(type) == type \in {"defTextVector", "defSwitchVector", "defNumberVector",
                         "defLightVector", "defBLOBVector"}

\* the element is a set*Vector other than setBLOBVector
IsSet(type) ==
    type \in {"setTextVector", "setSwitchVector", "setNumberVector", "setLightVector"}

\* the marks that survive the dispatch of item: an element with the device
\* and the name of the property, of whatever kind, or a delProperty that
\* covers it, ends the mark
MarksAfter(marks, item) ==
    CASE item.type = "message" -> marks
      [] item.type = "delProperty" ->
            {k \in marks : ~(item.Device = "" \/ (k[2] = item.Device /\
                                                  (item.Name = "" \/ k[3] = item.Name)))}
      [] OTHER -> {k \in marks : ~(k[2] = item.Device /\ k[3] = item.Name)}

\* the declared perm of each property after the dispatch of item
DeclAfter(decl, item) ==
    IF IsDef(item.type)
        THEN MapPut(decl, PKey(KindOf(item.type), item.Device, item.Name), item.Perm)
    ELSE IF item.type = "delProperty"
        THEN [k \in {x \in DOMAIN decl :
                        ~(item.Device = "" \/ (x[2] = item.Device /\
                                               (item.Name = "" \/ x[3] = item.Name)))}
                |-> decl[k]]
    ELSE decl


-----------------------------------------------------------------------------
(* Go maps are not safe for concurrent use.  Every copy of a Device struct  *)
(* points to the same five property maps, every copy of a property to the   *)
(* same Values map, and the writers map stored under a key is the one every *)
(* caller loads.  No lock orders the goroutines' accesses: when one         *)
(* accesses a map while another writes it, the run-time may stop the        *)
(* process with a fatal error, and it may let both go on.                   *)

\* an access to a map of the heap: how is read, range, assign or delete
Access(map, how) == [map |-> map, how |-> how]

\* a delete on an empty map returns before it marks the map as being
\* written; an assignment and any other delete mark it
MapIsEmpty(map) ==
    CASE map[1] = "dm" -> dm[map[2]][map[3]] = EmptyMap
      [] map[1] = "vm" -> vm[map[2]] = EmptyMap
      [] OTHER -> wm[map[2]] = {}

MapWrite(a) == a.how = "assign" \/ (a.how = "delete" /\ ~MapIsEmpty(a.map))

\* the order in which Groups ranges over the five maps
GroupsOrder == <<"Light", "Text", "Switch", "Blob", "Number">>

\* the locals of a Groups call after delete(m, name) on the map of the given
\* kind of the Device with the given maps: when the call is inside its range
\* over that very map, the entry is gone from the range, so that the range
\* owes it no visit, and an entry put in under the name later is a created
\* one, which the range yields or passes over whether or not it yielded the
\* old one
RangedAfterDelete(maps, kind, name) ==
    IF upc = "groups_visit" /\ uloc.device.Maps = maps /\ GroupsOrder[uloc.j] = kind
        THEN [uloc EXCEPT !.todo = @ \ {name}, !.seen = @ \ {name}]
        ELSE uloc

\* the map accesses of the statement the caller is at
UserAccesses ==
    CASE upc = "set_prop" -> {Access(<<"dm", uloc.device.Maps, uloc.kind>>, "read")}
      [] upc = "set_value" -> {Access(<<"vm", uloc.p.Values>>, "read")}
      [] upc = "set_write" -> {Access(<<"dm", uloc.device.Maps, uloc.kind>>, "assign")}
      [] upc \in {"groups", "groups_visit"} ->
            {Access(<<"dm", uloc.device.Maps, GroupsOrder[uloc.j]>>, "range")}
      [] OTHER -> {}

\* the map accesses of the statement the dispatcher of connection i is at
DispatcherAccesses(i) ==
    LET l == dloc[i]
        props == <<"dm", l.device.Maps, KindOf(l.item.type)>>
        values == <<"vm", l.prop.Values>>
        inLoop == l.j <= Len(l.item.Items)
    IN CASE dpc[i] = "find" -> {Access(props, "read")}
         [] dpc[i] = "value" /\ inLoop ->
               IF l.item.Items[l.j].Name \in DOMAIN vm[l.prop.Values]
                   THEN {Access(values, "read"), Access(values, "assign")}
                   ELSE {Access(values, "read")}
         [] dpc[i] = "value" /\ ~inLoop -> {Access(props, "assign")}
         [] dpc[i] = "write" -> {Access(props, "assign")}
         [] dpc[i] = "delete" ->
               {Access(<<"dm", l.device.Maps, DelOrder[l.j]>>, "delete")}
         [] dpc[i] = "blob" /\ inLoop -> {Access(values, "read")}
         [] dpc[i] = "blob" /\ ~inLoop -> {Access(props, "assign")}
         [] dpc[i] \in {"range", "visit"} -> {Access(<<"wm", l.wmap>>, "range")}
         [] dpc[i] = "copied" -> {Access(values, "assign")}
         [] OTHER -> {}

\* the map accesses of the statement the subscribing goroutine c is at
SubscriberAccesses(c) ==
    CASE spc[c].pc = "put" -> {Access(<<"wm", spc[c].writers>>, "assign")}
      [] spc[c].pc = "find" -> {Access(<<"wm", spc[c].writers>>, "read")}
      [] spc[c].pc = "delete" -> {Access(<<"wm", spc[c].writers>>, "delete")}
      [] OTHER -> {}

\* the map accesses of the lookups GetBlob, GetBlobStream and CloseBlobStream
\* begin with: device.BlobProperties[propName], then prop.Values[blobName]
LookupAccesses(d, p) ==
    IF d \notin DOMAIN devices THEN {}
    ELSE IF p \notin DOMAIN dm[devices[d].Maps]["Blob"]
        THEN {Access(<<"dm", devices[d].Maps, "Blob">>, "read")}
    ELSE {Access(<<"dm", devices[d].Maps, "Blob">>, "read"),
          Access(<<"vm", dm[devices[d].Maps]["Blob"][p].Values>>, "read")}

\* the map accesses of a GetBlobStream call: the lookups, and writers[id] = w
\* when the lookups succeed and a writers map is stored under the key
StreamAccesses(d, p, v) ==
    LookupAccesses(d, p) \cup
       IF /\ d \in DOMAIN devices
          /\ p \in DOMAIN dm[devices[d].Maps]["Blob"]
          /\ v \in DOMAIN vm[dm[devices[d].Maps]["Blob"][p].Values]
          /\ StreamKey(d, p, v) \in DOMAIN blobStreams
          THEN {Access(<<"wm", blobStreams[StreamKey(d, p, v)]>>, "assign")}
          ELSE {}

\* the goroutines that access maps: the caller, the subscribers and the
\* dispatchers.  What the goroutines other than g are about to access
OthersAccesses(g) ==
    UNION ({UserAccesses : u \in {<<"user">>} \ {g}}
           \cup {SubscriberAccesses(c) : c \in {c \in Subscribers : <<"subscriber", c>> # g}}
           \cup {DispatcherAccesses(i) : i \in {i \in Conns : <<"dispatcher", i>> # g}})

\* the fatal error of the run-time when the accesses a and b meet
FatalError(a, b) ==
    IF {a.how, b.how} \subseteq {"assign", "delete"}
        THEN "fatal error: concurrent map writes"
    ELSE IF "range" \in {a.how, b.how}
        THEN "fatal error: concurrent map iteration and map write"
    ELSE "fatal error: concurrent map read and map write"

\* the goroutine g makes the accesses A while another goroutine is at an
\* access to the same map, and one of the two writes: the run-time stops the
\* process
MapRace(g, A) ==
    /\ \E a \in A : \E b \in OthersAccesses(g) :
          /\ a.map = b.map /\ (MapWrite(a) \/ MapWrite(b))
          /\ panic' = FatalError(a, b)
    /\ UNCHANGED <<registry, clientFields, streams, channels, socket, user, workers, snap,
                   counters, history>>

-----------------------------------------------------------------------------
(* The facade: calls made by the application's goroutine *)

DelAll == Elem("delProperty", "", "", "", "", 0, "", <<>>)

\* delProperty with no device: c.devices.Range(func(key, value) bool {
\* c.devices.Delete(key); return true }).  Range is no snapshot of the map:
\* it comes to the keys one by one while other goroutines store and delete,
\* to no key twice.  It can come to the key d when it has not visited d and d
\* is in the map, or was when the Range was entered
RangeAt(l, d) == d \notin l.seen /\ d \in (DOMAIN devices) \cup l.todo

\* the locals of the Range after the key d: a key that is in the map has
\* been visited, a key deleted since the Range was entered is passed over
RangePast(l, d) ==
    [todo |-> l.todo \ {d},
     seen |-> IF d \in DOMAIN devices THEN l.seen \cup {d} ELSE l.seen]

\* c.devices.Delete(key) in the callback, for a key that is in the map
DeleteKey(d) ==
    /\ devices' = MapDel(devices, d)
    /\ busyMarks' = IF d \in DOMAIN devices
                       THEN MarksAfter(busyMarks, Elem("delProperty", d, "", "", "", 0, "", <<>>))
                       ELSE busyMarks
    /\ declPerm' = IF d \in DOMAIN devices
                      THEN DeclAfter(declPerm, Elem("delProperty", d, "", "", "", 0, "", <<>>))
                      ELSE declPerm

\* A variant that clears the registry before it looks at the dialer's error.
ConnectClearingFirst(ok) ==
    /\ panic = "" /\ upc = "idle" /\ ncalls < MaxCalls
    /\ ncalls' = ncalls + 1
    /\ devices' = EmptyMap /\ UNCHANGED <<dm, vm>>
    /\ busyMarks' = {} /\ declPerm' = EmptyMap
    /\ IF ~ok
          THEN /\ ret' = "dial error"
               /\ UNCHANGED <<upc, uloc, nconn>>
          ELSE /\ nconn < MaxConnects
               /\ nconn' = nconn + 1
               /\ uloc' = [NoLoc EXCEPT !.op = "Connect", !.nc = nconn + 1]
               /\ upc' = "conn_clear"
               /\ ret' = ret
    /\ UNCHANGED <<clientFields, streams, channels, socket, workers, panic, snap, nread,
                   snapView, readLog, applied, queued, subs>>

\* Connect, statement by statement; nothing serialises it with a Disconnect
\* on a socket reader.  First conn, err := c.dialer.Dial(...): ok is whether
\* the dialer returns a connection; the call returns the dialer's error
Connect(ok) ==
    /\ panic = "" /\ upc = "idle" /\ ncalls < MaxCalls
    /\ ncalls' = ncalls + 1
    /\ IF ~ok
          THEN /\ ret' = "dial error"
               /\ UNCHANGED <<upc, uloc, nconn>>
          ELSE /\ nconn < MaxConnects
               /\ nconn' = nconn + 1
               /\ uloc' = [NoLoc EXCEPT !.op = "Connect", !.nc = nconn + 1]
               /\ upc' = "conn_clear"
               /\ ret' = ret
    /\ UNCHANGED <<registry, clientFields, streams, channels, socket, workers, panic,
                   snap, nread, history>>

\* c.delProperty(&delProperty{}): the Range over c.devices is entered.  Over
\* an empty map it returns at once
ConnectClear ==
    /\ panic = "" /\ upc = "conn_clear"
    /\ IF devices = EmptyMap
          THEN upc' = "conn_set" /\ uloc' = uloc
          ELSE upc' = "conn_range" /\ uloc' = [uloc EXCEPT !.todo = DOMAIN devices]
    /\ UNCHANGED <<registry, clientFields, streams, channels, socket, ret, workers, panic,
                   snap, counters, history>>

\* the Range comes to the key d
ConnectClearKey(d) ==
    /\ panic = "" /\ upc = "conn_range"
    /\ RangeAt([todo |-> uloc.todo, seen |-> uloc.seen], d)
    /\ DeleteKey(d)
    /\ uloc' = [uloc EXCEPT
                  !.todo = RangePast([todo |-> uloc.todo, seen |-> uloc.seen], d).todo,
                  !.seen = RangePast([todo |-> uloc.todo, seen |-> uloc.seen], d).seen]
    /\ UNCHANGED <<dm, vm, clientFields, streams, channels, socket, upc, ret, workers,
                   panic, snap, counters, snapView, readLog, applied, queued, subs>>

\* the Range has come to every key it was entered with: delProperty returns
ConnectCleared ==
    /\ panic = "" /\ upc = "conn_range" /\ uloc.todo = {}
    /\ upc' = "conn_set"
    /\ uloc' = [uloc EXCEPT !.seen = {}]
    /\ UNCHANGED <<registry, clientFields, streams, channels, socket, ret, workers, panic,
                   snap, counters, history>>

\* c.conn = conn
ConnectSetConn ==
    /\ panic = "" /\ upc = "conn_set"
    /\ conn' = uloc.nc
    /\ upc' = "conn_read"
    /\ UNCHANGED <<registry, read, write, bufferSize, streams, channels, socket, uloc,
                   ret, workers, panic, snap, counters, history>>

\* c.read = make(chan interface{}, c.bufferSize)
ConnectMakeRead ==
    /\ panic = "" /\ upc = "conn_read"
    /\ read' = uloc.nc
    /\ upc' = "conn_write"
    /\ UNCHANGED <<registry, conn, write, bufferSize, streams, channels, socket, uloc,
                   ret, workers, panic, snap, counters, history>>

\* c.write = make(chan interface{}, c.bufferSize)
ConnectMakeWrite ==
    /\ panic = "" /\ upc = "conn_write"
    /\ write' = uloc.nc
    /\ upc' = "conn_startr"
    /\ UNCHANGED <<registry, conn, read, bufferSize, streams, channels, socket, uloc,
                   ret, workers, panic, snap, counters, history>>

\* c.startRead(): the dispatcher is started with c.read, the socket reader
\* with c.conn and c.read as they are now; a reader given a nil c.conn
\* panics in its first decoder.Token
ConnectStartRead ==
    /\ panic = "" /\ upc = "conn_startr"
    /\ dpc' = [dpc EXCEPT ![read] = "recv"]
    /\ rpc' = [rpc EXCEPT ![read] = "token"]
    /\ rdErr' = [rdErr EXCEPT ![read] = IF conn = 0 THEN "nil" ELSE @]
    /\ upc' = "conn_startw"
    /\ UNCHANGED <<registry, clientFields, streams, channels, connClosed, sent, uloc,
                   ret, ritem, rloc, dloc, wpc, wloc, panic, snap, counters, history>>

\* c.startWrite(): the socket writer is started with c.conn and c.write as
\* they are now; return nil
ConnectStartWrite ==
    /\ panic = "" /\ upc = "conn_startw"
    /\ wpc' = [wpc EXCEPT ![write] = "recv"]
    /\ wloc' = [wloc EXCEPT ![write] = [NoWloc EXCEPT !.conn = conn]]
    /\ upc' = "idle" /\ ret' = ErrNone
    /\ UNCHANGED <<registry, clientFields, streams, channels, socket, uloc, rpc, ritem, rloc,
                   dpc, dloc, panic, snap, counters, history>>

\* the statements of a Connect after the dial
Connecting ==
    \/ ConnectClear \/ ConnectSetConn \/ ConnectMakeRead \/ ConnectMakeWrite
    \/ ConnectStartRead \/ ConnectStartWrite

\* the names of the devices of the server
DeviceNames == {"d1", "d2"}

\* the Range of a Connect that found devices in the registry
ConnectClearing ==
    \/ \E d \in DeviceNames : ConnectClearKey(d)
    \/ ConnectCleared

\* the application connects once
ConnectOnce == nconn = 0 /\ Connect(TRUE)

\* IsConnected
IsConnected == conn # 0

\* Devices: c.devices.Range is entered.  Range is no snapshot of the map: it
\* visits the keys one by one while other goroutines store and delete, no
\* key twice.  todo has the keys it has yet to look for, got what it
\* appended.  Over an empty map it returns at once
Devices ==
    /\ panic = "" /\ upc = "idle" /\ ncalls < MaxCalls
    /\ ncalls' = ncalls + 1
    /\ IF devices = EmptyMap
          THEN /\ snap' = {} /\ snapView' = {}
               /\ UNCHANGED <<upc, uloc>>
          ELSE /\ upc' = "range"
               /\ uloc' = [NoLoc EXCEPT !.op = "Devices", !.todo = DOMAIN devices]
               /\ UNCHANGED <<snap, snapView>>
    /\ UNCHANGED <<registry, clientFields, streams, channels, socket, ret, workers,
                   panic, nconn, nread, busyMarks, declPerm, readLog, applied, queued, subs>>

\* the callback runs for a key not visited yet, with the Device stored under
\* it now: devices = append(devices, value.(Device))
DevicesVisit(d) ==
    /\ panic = "" /\ upc = "range"
    /\ d \in DOMAIN devices /\ d \notin uloc.seen
    /\ uloc' = [uloc EXCEPT !.todo = @ \ {d}, !.seen = @ \cup {d},
                            !.got = @ \cup {devices[d]}]
    /\ UNCHANGED <<registry, clientFields, streams, channels, socket, upc, ret, workers,
                   panic, snap, counters, history>>

\* a key that has been deleted since is passed over
DevicesSkip(d) ==
    /\ panic = "" /\ upc = "range"
    /\ d \in uloc.todo /\ d \notin DOMAIN devices
    /\ uloc' = [uloc EXCEPT !.todo = @ \ {d}]
    /\ UNCHANGED <<registry, clientFields, streams, channels, socket, upc, ret, workers,
                   panic, snap, counters, history>>

\* return devices
DevicesReturn ==
    /\ panic = "" /\ upc = "range" /\ uloc.todo = {}
    /\ snap' = uloc.got
    /\ snapView' = {DeviceView(d) : d \in uloc.got}
    /\ upc' = "idle" /\ uloc' = NoLoc
    /\ UNCHANGED <<registry, clientFields, streams, channels, socket, ret, workers,
                   panic, counters, busyMarks, declPerm, readLog, applied, queued, subs>>

\* A variant without the test of the names.
GetPropertiesUnchecked(d, p) ==
    /\ panic = "" /\ upc = "idle" /\ ncalls < MaxCalls
    /\ ncalls' = ncalls + 1
    /\ uloc' = [NoLoc EXCEPT !.op = "GetProperties", !.dev = d, !.prop = p,
                             !.cmd = Elem("getProperties", d, p, "", "", 0, "", <<>>)]
    /\ upc' = "send"
    /\ ret' = ret
    /\ UNCHANGED <<registry, clientFields, streams, channels, socket, workers, panic,
                   snap, nconn, nread, history>>

\* GetProperties, up to the send on c.write
GetProperties(d, p) ==
    /\ panic = "" /\ upc = "idle" /\ ncalls < MaxCalls
    /\ ncalls' = ncalls + 1
    /\ IF p # "" /\ d = ""
          THEN /\ ret' = ErrPropertyWithoutDevice
               /\ uloc' = NoLoc
               /\ upc' = "idle"
          ELSE /\ uloc' = [NoLoc EXCEPT !.op = "GetProperties", !.dev = d, !.prop = p,
                                        !.cmd = Elem("getProperties", d, p, "", "", 0, "", <<>>)]
               /\ upc' = "send"
               /\ ret' = ret
    /\ UNCHANGED <<registry, clientFields, streams, channels, socket, workers, panic,
                   snap, nconn, nread, history>>

\* A variant that looks for the device before it looks at the mode.
EnableBlobDeviceFirst(d, p, val) ==
    /\ panic = "" /\ upc = "idle" /\ ncalls < MaxCalls
    /\ ncalls' = ncalls + 1
    /\ IF findDevice(devices, d).err # ErrNone
          THEN /\ ret' = findDevice(devices, d).err
               /\ uloc' = [NoLoc EXCEPT !.op = "EnableBlob", !.dev = d, !.prop = p,
                                        !.val = val]
               /\ upc' = "idle"
          ELSE IF val \notin {"Also", "Never", "Only"}
          THEN /\ ret' = ErrInvalidBlobEnable
               /\ uloc' = [NoLoc EXCEPT !.op = "EnableBlob", !.dev = d, !.prop = p,
                                        !.val = val]
               /\ upc' = "idle"
          ELSE /\ uloc' = [NoLoc EXCEPT !.op = "EnableBlob", !.dev = d, !.prop = p,
                                        !.val = val,
                                        !.cmd = Elem("enableBLOB", d, p, "", "", 0, "",
                                                     <<One("", <<val>>, "")>>)]
               /\ upc' = "send"
               /\ ret' = ret
    /\ UNCHANGED <<registry, clientFields, streams, channels, socket, workers, panic,
                   snap, nconn, nread, history>>

\* A variant that does not look for the device.
EnableBlobAnyDevice(d, p, val) ==
    /\ panic = "" /\ upc = "idle" /\ ncalls < MaxCalls
    /\ ncalls' = ncalls + 1
    /\ IF val \notin {"Also", "Never", "Only"}
          THEN /\ ret' = ErrInvalidBlobEnable
               /\ uloc' = [NoLoc EXCEPT !.op = "EnableBlob", !.dev = d, !.prop = p,
                                        !.val = val]
               /\ upc' = "idle"
          ELSE /\ uloc' = [NoLoc EXCEPT !.op = "EnableBlob", !.dev = d, !.prop = p,
                                        !.val = val,
                                        !.cmd = Elem("enableBLOB", d, p, "", "", 0, "",
                                                     <<One("", <<val>>, "")>>)]
               /\ upc' = "send"
               /\ ret' = ret
    /\ UNCHANGED <<registry, clientFields, streams, channels, socket, workers, panic,
                   snap, nconn, nread, history>>

\* EnableBlob, up to the send on c.write: the mode, then the device
EnableBlob(d, p, val) ==
    /\ panic = "" /\ upc = "idle" /\ ncalls < MaxCalls
    /\ ncalls' = ncalls + 1
    /\ IF val \notin {"Also", "Never", "Only"}
          THEN /\ ret' = ErrInvalidBlobEnable
               /\ uloc' = [NoLoc EXCEPT !.op = "EnableBlob", !.dev = d, !.prop = p,
                                        !.val = val]
               /\ upc' = "idle"
          ELSE IF findDevice(devices, d).err # ErrNone
          THEN /\ ret' = findDevice(devices, d).err
               /\ uloc' = [NoLoc EXCEPT !.op = "EnableBlob", !.dev = d, !.prop = p,
                                        !.val = val]
               /\ upc' = "idle"
          ELSE /\ uloc' = [NoLoc EXCEPT !.op = "EnableBlob", !.dev = d, !.prop = p,
                                        !.val = val,
                                        !.cmd = Elem("enableBLOB", d, p, "", "", 0, "",
                                                     <<One("", <<val>>, "")>>)]
               /\ upc' = "send"
               /\ ret' = ret
    /\ UNCHANGED <<registry, clientFields, streams, channels, socket, workers, panic,
                   snap, nconn, nread, history>>

\* filepath.Base strips the trailing separators first
RECURSIVE TrimSep(_)
TrimSep(path) ==
    IF Len(path) > 1 /\ SubSeq(path, Len(path), Len(path)) = "/"
        THEN TrimSep(SubSeq(path, 1, Len(path) - 1))
        ELSE path

\* what follows the last separator among the first n characters of path
RECURSIVE AfterSep(_, _)
AfterSep(path, n) ==
    IF n = 0 THEN path
    ELSE IF SubSeq(path, n, n) = "/" THEN SubSeq(path, n + 1, Len(path))
    ELSE AfterSep(path, n - 1)

\* filepath.Base of a recorded path: "." for the empty path, the separator
\* for a path of separators only, the last element otherwise
Base(path) ==
    IF path = "" THEN "."
    ELSE IF TrimSep(path) = "/" THEN "/"
    ELSE AfterSep(TrimSep(path), Len(TrimSep(path)))

\* A variant that fills in the name and the size before it opens the file.
GetBlobNamingFirst(d, p, v, fsok) ==
    /\ panic = "" /\ upc = "idle" /\ ncalls < MaxCalls
    /\ ncalls' = ncalls + 1
    /\ upc' = "idle"
    /\ LET f == findDevice(devices, d)
           here == [NoLoc EXCEPT !.op = "GetBlob", !.dev = d, !.prop = p, !.val = v]
       IN IF f.err # ErrNone
             THEN ret' = f.err /\ uloc' = here
          ELSE IF p \notin DOMAIN dm[f.dev.Maps]["Blob"]
             THEN ret' = ErrPropertyNotFound /\ uloc' = here
          ELSE IF v \notin DOMAIN vm[dm[f.dev.Maps]["Blob"][p].Values]
             THEN ret' = ErrPropertyValueNotFound /\ uloc' = here
          ELSE LET val == vm[dm[f.dev.Maps]["Blob"][p].Values][v] IN
               IF ~fsok
                  THEN /\ ret' = "open error"
                       /\ uloc' = [here EXCEPT !.fileName = Base(val.Value),
                                               !.length = val.Size]
                  ELSE /\ ret' = ErrNone
                       /\ uloc' = [here EXCEPT !.rdr = <<val.Value>>,
                                               !.fileName = Base(val.Value),
                                               !.length = val.Size]
    /\ UNCHANGED <<registry, clientFields, streams, channels, socket, workers, panic,
                   snap, nconn, nread, history>>

\* GetBlob.  fsok is whether c.fs.Open opens the recorded path; rdr is empty
\* for a nil reader and holds the path it reads otherwise.
GetBlob(d, p, v, fsok) ==
    /\ panic = "" /\ upc = "idle" /\ ncalls < MaxCalls
    /\ \/ /\ ncalls' = ncalls + 1
          /\ upc' = "idle"
          /\ LET f == findDevice(devices, d)
                 here == [NoLoc EXCEPT !.op = "GetBlob", !.dev = d, !.prop = p, !.val = v]
             IN IF f.err # ErrNone
                   THEN ret' = f.err /\ uloc' = here
                ELSE IF p \notin DOMAIN dm[f.dev.Maps]["Blob"]
                   THEN ret' = ErrPropertyNotFound /\ uloc' = here
                ELSE IF v \notin DOMAIN vm[dm[f.dev.Maps]["Blob"][p].Values]
                   THEN ret' = ErrPropertyValueNotFound /\ uloc' = here
                ELSE LET val == vm[dm[f.dev.Maps]["Blob"][p].Values][v] IN
                     IF ~fsok
                        THEN ret' = "open error" /\ uloc' = here
                        ELSE /\ ret' = ErrNone
                             /\ uloc' = [here EXCEPT !.rdr = <<val.Value>>,
                                                     !.fileName = Base(val.Value),
                                                     !.length = val.Size]
          /\ UNCHANGED <<registry, clientFields, streams, channels, socket, workers, panic,
                         snap, nconn, nread, history>>
       \/ MapRace(<<"user">>, LookupAccesses(d, p))

\* the new*Vector command of a Set call: the one changed value
NewVector(kind, d, p, v) ==
    Elem(CASE kind = "Text" -> "newTextVector"
           [] kind = "Number" -> "newNumberVector"
           [] kind = "Switch" -> "newSwitchVector"
           [] kind = "Blob" -> "newBLOBVector",
         d, p, "", "", 0, "", <<One(v, <<"x">>, "")>>)

\* a Set call returns err
SetFail(err) ==
    /\ ret' = err
    /\ upc' = "idle"
    /\ uloc' = [NoLoc EXCEPT !.op = "SetValue", !.kind = uloc.kind, !.dev = uloc.dev,
                             !.prop = uloc.prop, !.val = uloc.val]

\* SetTextValue, SetNumberValue, SetSwitchValue and SetBlobValue, statement
\* by statement.  First device, err := c.findDevice(deviceName): the call
\* returns the error, or goes on with the Device struct it loaded
SetValue(kind, d, p, v) ==
    /\ panic = "" /\ upc = "idle" /\ ncalls < MaxCalls
    /\ ncalls' = ncalls + 1
    /\ LET f == findDevice(devices, d)
           here == [NoLoc EXCEPT !.op = "SetValue", !.kind = kind, !.dev = d,
                                 !.prop = p, !.val = v]
       IN IF f.err # ErrNone
             THEN /\ ret' = f.err
                  /\ upc' = "idle"
                  /\ uloc' = here
             ELSE /\ ret' = ret
                  /\ upc' = "set_prop"
                  /\ uloc' = [here EXCEPT !.device = f.dev,
                                          !.cmd = NewVector(kind, d, p, v)]
    /\ UNCHANGED <<registry, clientFields, streams, channels, socket, workers, panic,
                   snap, nconn, nread, history>>

SetTextValue(d, p, v) == SetValue("Text", d, p, v)

SetNumberValue(d, p, v) == SetValue("Number", d, p, v)

SetSwitchValue(d, p, v) == SetValue("Switch", d, p, v)

SetBlobValue(d, p, v) == SetValue("Blob", d, p, v)

\* A variant that looks for the value name before it looks at the permission.
SetFindPropValueFirst ==
    /\ panic = "" /\ upc = "set_prop"
    /\ LET props == dm[uloc.device.Maps][uloc.kind] IN
       IF uloc.prop \notin DOMAIN props
          THEN SetFail(ErrPropertyNotFound)
       ELSE IF uloc.val \notin DOMAIN vm[props[uloc.prop].Values]
          THEN SetFail(ErrPropertyValueNotFound)
       ELSE IF props[uloc.prop].Permissions = PropertyPermissionReadOnly
          THEN SetFail(ErrPropertyReadOnly)
       ELSE /\ uloc' = [uloc EXCEPT !.p = props[uloc.prop]]
            /\ upc' = "set_value"
            /\ ret' = ret
    /\ UNCHANGED <<registry, clientFields, streams, channels, socket, workers, panic,
                   snap, counters, history>>

\* A variant that marks the property Busy in the map as soon as it has found
\* it, before it looks at the permission.
SetFindPropBusyFirst ==
    /\ panic = "" /\ upc = "set_prop"
    /\ LET props == dm[uloc.device.Maps][uloc.kind] IN
       IF uloc.prop \notin DOMAIN props
          THEN SetFail(ErrPropertyNotFound) /\ dm' = dm
       ELSE /\ dm' = [dm EXCEPT ![uloc.device.Maps][uloc.kind][uloc.prop].State =
                                    PropertyStateBusy]
            /\ IF props[uloc.prop].Permissions = PropertyPermissionReadOnly
                  THEN SetFail(ErrPropertyReadOnly)
                  ELSE /\ uloc' = [uloc EXCEPT !.p = props[uloc.prop]]
                       /\ upc' = "set_value"
                       /\ ret' = ret
    /\ UNCHANGED <<devices, vm, clientFields, streams, channels, socket, workers, panic,
                   snap, counters, history>>

\* prop, ok := device.<Kind>Properties[propName], read through the struct in
\* hand, and the test of the copy's Permissions
SetFindProp ==
    /\ panic = "" /\ upc = "set_prop"
    /\ \/ /\ LET props == dm[uloc.device.Maps][uloc.kind] IN
             IF uloc.prop \notin DOMAIN props
                THEN SetFail(ErrPropertyNotFound)
             ELSE IF props[uloc.prop].Permissions = PropertyPermissionReadOnly
                THEN SetFail(ErrPropertyReadOnly)
             ELSE /\ uloc' = [uloc EXCEPT !.p = props[uloc.prop]]
                  /\ upc' = "set_value"
                  /\ ret' = ret
          /\ UNCHANGED <<registry, clientFields, streams, channels, socket, workers, panic,
                         snap, counters, history>>
       \/ MapRace(<<"user">>, UserAccesses)

\* _, ok = prop.Values[name]
SetFindValue ==
    /\ panic = "" /\ upc = "set_value"
    /\ \/ /\ IF uloc.val \notin DOMAIN vm[uloc.p.Values]
                THEN SetFail(ErrPropertyValueNotFound)
                ELSE /\ upc' = "set_write"
                     /\ UNCHANGED <<uloc, ret>>
          /\ UNCHANGED <<registry, clientFields, streams, channels, socket, workers, panic,
                         snap, counters, history>>
       \/ MapRace(<<"user">>, UserAccesses)

\* prop.State = Busy; device.<Kind>Properties[propName] = prop;
\* c.devices.Store(deviceName, device), with the Device and property loaded:
\* what the two writes leave when nothing comes between them
SetValueStore(R, u) ==
    Reg(MapPut(R.devices, u.dev, u.device),
        [R.dm EXCEPT ![u.device.Maps][u.kind] =
             MapPut(@, u.prop, [u.p EXCEPT !.State = PropertyStateBusy])],
        R.vm)

\* prop.State = PropertyStateBusy; device.<Kind>Properties[propName] = prop:
\* the write goes to the map the struct in hand points to
SetWrite ==
    /\ panic = "" /\ upc = "set_write"
    /\ \/ /\ dm' = SetValueStore(R0, uloc).dm
          /\ busyMarks' = busyMarks \cup {PKey(uloc.kind, uloc.dev, uloc.prop)}
          /\ upc' = "store"
          /\ UNCHANGED <<devices, vm, clientFields, streams, channels, socket, uloc, ret,
                         workers, panic, snap, counters, snapView, declPerm, readLog, applied,
                         queued, subs>>
       \/ MapRace(<<"user">>, UserAccesses)

\* c.devices.Store(deviceName, device)
SetStore ==
    /\ panic = "" /\ upc = "store"
    /\ devices' = SetValueStore(R0, uloc).devices
    /\ upc' = "send"
    /\ UNCHANGED <<dm, vm, clientFields, streams, channels, socket, uloc, ret, workers,
                   panic, snap, counters, history>>

\* the statements of a Set call between its Load and its send
Setting == SetFindProp \/ SetFindValue \/ SetWrite \/ SetStore

\* c.write <- cmd.  A send on a nil channel blocks for ever, a send on a
\* closed channel panics, a send on a full channel parks the goroutine.
Send ==
    /\ panic = "" /\ upc = "send"
    /\ IF write # 0 /\ write \in outClosed
          THEN /\ panic' = "user: send on closed channel"
               /\ UNCHANGED <<outq, upc, uloc, ret, queued, subs>>
          ELSE IF write # 0 /\ Len(outq[write]) < bufferSize
          THEN /\ outq' = [outq EXCEPT ![write] = Append(@, uloc.cmd)]
               /\ queued' = [queued EXCEPT ![write] = Append(@, uloc.cmd)]
               /\ upc' = "idle" /\ uloc' = NoLoc /\ ret' = ErrNone
               /\ panic' = panic
          ELSE /\ upc' = "blocked"
               /\ UNCHANGED <<outq, uloc, ret, panic, queued, subs>>
    /\ UNCHANGED <<registry, clientFields, streams, inq, inClosed, outClosed, socket,
                   workers, snap, counters, snapView, busyMarks, declPerm, readLog,
                   applied, subs>>

\* the parked sender wakes when the channel has room, or panics when the
\* channel is closed under it
Wake ==
    /\ panic = "" /\ upc = "blocked" /\ write # 0
    /\ IF write \in outClosed
          THEN /\ panic' = "user: send on closed channel"
               /\ UNCHANGED <<outq, upc, uloc, ret, queued, subs>>
          ELSE /\ Len(outq[write]) < bufferSize
               /\ outq' = [outq EXCEPT ![write] = Append(@, uloc.cmd)]
               /\ queued' = [queued EXCEPT ![write] = Append(@, uloc.cmd)]
               /\ upc' = "idle" /\ uloc' = NoLoc /\ ret' = ErrNone
               /\ panic' = panic
    /\ UNCHANGED <<registry, clientFields, streams, inq, inClosed, outClosed, socket,
                   workers, snap, counters, snapView, busyMarks, declPerm, readLog,
                   applied, subs>>

\* GetBlobStream: the checks, then a new pipe under the key
GetBlobStream(d, p, v) ==
    /\ panic = "" /\ upc = "idle" /\ ncalls < MaxCalls
    /\ \/ /\ ncalls' = ncalls + 1
          /\ uloc' = NoLoc
          /\ LET err == LET f == findDevice(devices, d) IN
                        IF f.err # ErrNone THEN f.err
                        ELSE IF p \notin DOMAIN dm[f.dev.Maps]["Blob"] THEN ErrPropertyNotFound
                        ELSE IF v \notin DOMAIN vm[dm[f.dev.Maps]["Blob"][p].Values]
                            THEN ErrPropertyValueNotFound
                        ELSE ErrNone
                 key == StreamKey(d, p, v)
             IN /\ ret' = err
                /\ IF err # ErrNone
                      THEN UNCHANGED <<blobStreams, wm, pipes, subs>>
                      ELSE /\ pipes' = Append(pipes, [wclosed |-> FALSE, rclosed |-> FALSE,
                                                      got |-> <<>>, short |-> 0])
                           /\ IF key \in DOMAIN blobStreams
                                 THEN /\ wm' = [wm EXCEPT ![blobStreams[key]] =
                                                             @ \cup {Len(pipes) + 1}]
                                      /\ blobStreams' = blobStreams
                                 ELSE /\ wm' = Append(wm, {Len(pipes) + 1})
                                      /\ blobStreams' = MapPut(blobStreams, key, Len(wm) + 1)
                           /\ subs' = [subs EXCEPT
                                          !.key = MapPut(@, Len(pipes) + 1, key),
                                          !.during = IF Copies(key) # {}
                                                         THEN @ \cup {Len(pipes) + 1}
                                                         ELSE @]
          /\ UNCHANGED <<registry, clientFields, spc, files, channels, socket, upc, workers,
                         panic, snap, nconn, nread, snapView, busyMarks, declPerm, readLog,
                         applied, queued>>
       \/ MapRace(<<"user">>, StreamAccesses(d, p, v))

\* the three lookups GetBlobStream and CloseBlobStream begin with
findBlobValue(d, p, v) ==
    LET f == findDevice(devices, d) IN
    IF f.err # ErrNone THEN f.err
    ELSE IF p \notin DOMAIN dm[f.dev.Maps]["Blob"] THEN ErrPropertyNotFound
    ELSE IF v \notin DOMAIN vm[dm[f.dev.Maps]["Blob"][p].Values]
        THEN ErrPropertyValueNotFound
    ELSE ErrNone

\* GetBlobStream on goroutine c, statement by statement, so that two calls can
\* run side by side.  First the lookups, the new id and pipe, and
\* c.blobStreams.Load(key): the map in hand is the one stored under the key,
\* or a new one.  A call that fails a lookup returns and changes nothing.
GetBlobStreamLoad(c, d, p, v) ==
    /\ panic = "" /\ spc[c].pc = "idle" /\ Len(pipes) < MaxCalls
    /\ \/ /\ LET key == StreamKey(d, p, v) IN
             IF findBlobValue(d, p, v) # ErrNone
                THEN UNCHANGED <<spc, pipes, wm>>
                ELSE /\ pipes' = Append(pipes, [wclosed |-> FALSE, rclosed |-> FALSE,
                                                got |-> <<>>, short |-> 0])
                     /\ wm' = IF key \in DOMAIN blobStreams THEN wm ELSE Append(wm, {})
                     /\ spc' = [spc EXCEPT ![c] =
                                   [pc |-> "put", id |-> Len(pipes) + 1, key |-> key,
                                    writers |-> IF key \in DOMAIN blobStreams
                                                    THEN blobStreams[key]
                                                    ELSE Len(wm) + 1,
                                    err |-> ErrNone, copies |-> Copies(key)]]
          /\ UNCHANGED <<registry, clientFields, blobStreams, files, channels, socket, user,
                         workers, panic, snap, counters, history>>
       \/ MapRace(<<"subscriber", c>>, LookupAccesses(d, p))

\* writers[id] = w, in place
GetBlobStreamPut(c) ==
    /\ panic = "" /\ spc[c].pc = "put"
    /\ \/ /\ wm' = [wm EXCEPT ![spc[c].writers] = @ \cup {spc[c].id}]
          /\ spc' = [spc EXCEPT ![c].pc = "store"]
          /\ panic' = panic
       \/ MapRace(<<"subscriber", c>>, SubscriberAccesses(c))
    /\ UNCHANGED <<registry, clientFields, blobStreams, pipes, files, channels, socket,
                   user, workers, snap, counters, history>>

\* c.blobStreams.Store(key, writers); return
GetBlobStreamStore(c) ==
    /\ panic = "" /\ spc[c].pc = "store"
    /\ blobStreams' = MapPut(blobStreams, spc[c].key, spc[c].writers)
    /\ subs' = [subs EXCEPT !.key = MapPut(@, spc[c].id, spc[c].key),
                             !.during = IF spc[c].copies \cap Copies(spc[c].key) # {}
                                            THEN @ \cup {spc[c].id}
                                            ELSE @]
    /\ spc' = [spc EXCEPT ![c] = NoSloc]
    /\ UNCHANGED <<registry, clientFields, wm, pipes, files, channels, socket, user,
                   workers, panic, snap, counters, snapView, busyMarks, declPerm,
                   readLog, applied, queued>>

\* CloseBlobStream on goroutine c with an id: the lookups and
\* c.blobStreams.Load(key); with nothing under the key it returns nil (no id
\* and no error are left in hand), and with a failed lookup it returns the
\* lookup's error, which stays in err
CloseBlobStreamLoad(c, d, p, v, id) ==
    /\ panic = "" /\ spc[c].pc = "idle" /\ id \notin subs.closed
    /\ \/ /\ LET key == StreamKey(d, p, v) IN
             IF findBlobValue(d, p, v) # ErrNone
                THEN /\ spc' = [spc EXCEPT ![c] = [NoSloc EXCEPT !.id = id,
                                                      !.err = findBlobValue(d, p, v)]]
                     /\ subs' = subs
                ELSE /\ subs' = [subs EXCEPT !.closed = @ \cup {id}]
                     /\ spc' = IF key \in DOMAIN blobStreams
                                  THEN [spc EXCEPT ![c] =
                                           [NoSloc EXCEPT !.pc = "find", !.id = id,
                                                          !.key = key,
                                                          !.writers = blobStreams[key]]]
                                  ELSE [spc EXCEPT ![c] = NoSloc]
          /\ UNCHANGED <<registry, clientFields, blobStreams, wm, pipes, files, channels,
                         socket, user, workers, panic, snap, counters, snapView, busyMarks,
                         declPerm, readLog, applied, queued>>
       \/ MapRace(<<"subscriber", c>>, LookupAccesses(d, p))

\* if w, ok := writers[id]; ok { ...  With the id not in the map the call
\* returns nil
CloseBlobStreamFind(c) ==
    /\ panic = "" /\ spc[c].pc = "find"
    /\ \/ /\ spc' = [spc EXCEPT ![c] = IF spc[c].id \in wm[spc[c].writers]
                                           THEN [@ EXCEPT !.pc = "close"]
                                           ELSE NoSloc]
          /\ panic' = panic
       \/ MapRace(<<"subscriber", c>>, SubscriberAccesses(c))
    /\ UNCHANGED <<registry, clientFields, blobStreams, wm, pipes, files, channels, socket,
                   user, workers, snap, counters, history>>

\* ... w.(io.WriteCloser).Close(): the pipe's writer is closed, the id still
\* in the map
CloseBlobStreamClose(c) ==
    /\ panic = "" /\ spc[c].pc = "close"
    /\ pipes' = [pipes EXCEPT ![spc[c].id].wclosed = TRUE]
    /\ spc' = [spc EXCEPT ![c].pc = "delete"]
    /\ UNCHANGED <<registry, clientFields, blobStreams, wm, files, channels, socket, user,
                   workers, panic, snap, counters, history>>

\* ... delete(writers, id), in place
CloseBlobStreamDelete(c) ==
    /\ panic = "" /\ spc[c].pc = "delete"
    /\ \/ /\ wm' = [wm EXCEPT ![spc[c].writers] = @ \ {spc[c].id}]
          /\ spc' = [spc EXCEPT ![c].pc = "restore"]
          /\ panic' = panic
       \/ MapRace(<<"subscriber", c>>, SubscriberAccesses(c))
    /\ UNCHANGED <<registry, clientFields, blobStreams, pipes, files, channels, socket,
                   user, workers, snap, counters, history>>

\* ... c.blobStreams.Store(key, writers) }; return
CloseBlobStreamStore(c) ==
    /\ panic = "" /\ spc[c].pc = "restore"
    /\ blobStreams' = MapPut(blobStreams, spc[c].key, spc[c].writers)
    /\ spc' = [spc EXCEPT ![c] = NoSloc]
    /\ UNCHANGED <<registry, clientFields, wm, pipes, files, channels, socket, user,
                   workers, panic, snap, counters, history>>

\* Disconnect is entered; its statements follow below
Disconnect ==
    /\ panic = "" /\ upc = "idle" /\ ncalls < MaxCalls
    /\ ncalls' = ncalls + 1
    /\ upc' = "disc"
    /\ uloc' = NoLoc
    /\ UNCHANGED <<registry, clientFields, streams, channels, socket, ret, workers,
                   panic, snap, nconn, nread, history>>


-----------------------------------------------------------------------------
(* Disconnect, statement by statement.  It runs on the caller's goroutine   *)
(* (t = 0) or, on EOF, on the socket reader of connection t.  Nothing       *)
(* serialises two Disconnects, or a Disconnect and a Connect.               *)

Callers == {0} \cup Conns

At(t) == IF t = 0 THEN upc ELSE rpc[t]

\* the goroutine t moves to pc
Goto(t, pc) ==
    IF t = 0
        THEN upc' = pc /\ rpc' = rpc
        ELSE rpc' = [rpc EXCEPT ![t] = pc] /\ upc' = upc

\* Disconnect returns err: the caller is idle again, the reader ends
Return(t, err) ==
    IF t = 0
        THEN upc' = "idle" /\ ret' = err /\ rpc' = rpc
        ELSE rpc' = [rpc EXCEPT ![t] = "done"] /\ upc' = upc /\ ret' = ret

\* the locals of the Range the goroutine t is in
Ranging(t) == IF t = 0 THEN [todo |-> uloc.todo, seen |-> uloc.seen] ELSE rloc[t]

\* they become l
SetRanging(t, l) ==
    IF t = 0
        THEN uloc' = [uloc EXCEPT !.todo = l.todo, !.seen = l.seen] /\ rloc' = rloc
        ELSE rloc' = [rloc EXCEPT ![t] = l] /\ uloc' = uloc

\* c.delProperty(&delProperty{}): the Range over c.devices is entered.  Over
\* an empty map it returns at once
DiscClear(t) ==
    /\ panic = "" /\ At(t) = "disc"
    /\ IF devices = EmptyMap
          THEN Goto(t, "disc_check") /\ UNCHANGED <<uloc, rloc>>
          ELSE /\ Goto(t, "disc_range")
               /\ SetRanging(t, [todo |-> DOMAIN devices, seen |-> {}])
    /\ UNCHANGED <<registry, clientFields, streams, channels, socket, ret, ritem, dpc,
                   dloc, wpc, wloc, panic, snap, counters, history>>

\* the Range comes to the key d
DiscClearKey(t, d) ==
    /\ panic = "" /\ At(t) = "disc_range"
    /\ RangeAt(Ranging(t), d)
    /\ DeleteKey(d)
    /\ SetRanging(t, RangePast(Ranging(t), d))
    /\ UNCHANGED <<dm, vm, clientFields, streams, channels, socket, upc, ret, rpc, ritem,
                   dpc, dloc, wpc, wloc, panic, snap, counters, snapView, readLog, applied,
                   queued, subs>>

\* the Range has come to every key it was entered with: delProperty returns
DiscCleared(t) ==
    /\ panic = "" /\ At(t) = "disc_range" /\ Ranging(t).todo = {}
    /\ Goto(t, "disc_check")
    /\ SetRanging(t, NoRange)
    /\ UNCHANGED <<registry, clientFields, streams, channels, socket, ret, ritem, dpc,
                   dloc, wpc, wloc, panic, snap, counters, history>>

\* A variant that goes on to close whatever c.conn is.
DiscCheckSkipped(t) ==
    /\ panic = "" /\ At(t) = "disc_check"
    /\ Goto(t, "disc_close") /\ ret' = ret
    /\ UNCHANGED <<registry, clientFields, streams, channels, socket, uloc, ritem, rloc, dpc,
                   dloc, wpc, wloc, panic, snap, counters, history>>

\* if c.conn == nil { return nil }
DiscCheck(t) ==
    /\ panic = "" /\ At(t) = "disc_check"
    /\ IF conn = 0 THEN Return(t, ErrNone) ELSE Goto(t, "disc_close") /\ ret' = ret
    /\ UNCHANGED <<registry, clientFields, streams, channels, socket, uloc, ritem, rloc, dpc,
                   dloc, wpc, wloc, panic, snap, counters, history>>

\* err := c.conn.Close(): a method call on a nil interface panics.  What
\* Close returns is up to the stream; a socket reader drops what its
\* Disconnect returns
DiscClose(t) ==
    /\ panic = "" /\ At(t) = "disc_close"
    /\ IF conn = 0
          THEN /\ panic' = "nil pointer dereference"
               /\ UNCHANGED <<connClosed, upc, rpc, uloc>>
          ELSE /\ connClosed' = connClosed \cup {conn}
               /\ Goto(t, "disc_nil")
               /\ \E cerr \in {ErrNone, "close error"} :
                     uloc' = IF t = 0 THEN [uloc EXCEPT !.cerr = cerr] ELSE uloc
               /\ panic' = panic
    /\ UNCHANGED <<registry, clientFields, streams, channels, rdErr, sent, ret,
                   ritem, rloc, dpc, dloc, wpc, wloc, snap, counters, history>>

\* c.conn = nil
DiscNil(t) ==
    /\ panic = "" /\ At(t) = "disc_nil"
    /\ conn' = 0
    /\ Goto(t, "disc_read")
    /\ UNCHANGED <<registry, read, write, bufferSize, streams, channels, socket, uloc, ret,
                   ritem, rloc,
                   dpc, dloc, wpc, wloc, panic, snap, counters, history>>

\* if c.read != nil { close(c.read) }: closing a closed channel panics
DiscCloseRead(t) ==
    /\ panic = "" /\ At(t) = "disc_read"
    /\ IF read # 0 /\ read \in inClosed
          THEN /\ panic' = "close of closed channel"
               /\ UNCHANGED <<inClosed, upc, rpc>>
          ELSE /\ inClosed' = IF read # 0 THEN inClosed \cup {read} ELSE inClosed
               /\ Goto(t, "disc_write")
               /\ panic' = panic
    /\ UNCHANGED <<registry, clientFields, streams, inq, outq, outClosed, socket, uloc,
                   ret, ritem, rloc, dpc, dloc, wpc, wloc, snap, counters, history>>

\* if c.write != nil { close(c.write) }; return err
DiscCloseWrite(t) ==
    /\ panic = "" /\ At(t) = "disc_write"
    /\ IF write # 0 /\ write \in outClosed
          THEN /\ panic' = "close of closed channel"
               /\ UNCHANGED <<outClosed, upc, rpc, ret>>
          ELSE /\ outClosed' = IF write # 0 THEN outClosed \cup {write} ELSE outClosed
               /\ Return(t, uloc.cerr)
               /\ panic' = panic
    /\ UNCHANGED <<registry, clientFields, streams, inq, inClosed, outq, socket, uloc,
                   ritem, rloc, dpc, dloc, wpc, wloc, snap, counters, history>>

-----------------------------------------------------------------------------
(* The socket reader of connection i (startRead, second goroutine) and the  *)
(* stream it reads                                                          *)

\* decoder.Token and DecodeElement yield the element e
ReaderToken(i, e) ==
    /\ panic = "" /\ rpc[i] = "token" /\ rdErr[i] = "none" /\ nread < MaxRead
    /\ ritem' = [ritem EXCEPT ![i] = e]
    /\ rpc' = [rpc EXCEPT ![i] = "send"]
    /\ nread' = nread + 1
    /\ readLog' = [readLog EXCEPT ![i] = Append(@, e)]
    /\ UNCHANGED <<rloc, registry, clientFields, streams, channels, socket, user, dpc, dloc,
                   wpc, wloc, panic, snap, nconn, ncalls, snapView, busyMarks, declPerm,
                   applied, queued, subs>>

\* A variant that puts the element at the front of the buffer.
ReaderSendFront(i) ==
    /\ panic = "" /\ rpc[i] = "send"
    /\ IF i \in inClosed
          THEN /\ panic' = "reader: send on closed channel"
               /\ UNCHANGED <<inq, rpc, ritem>>
          ELSE /\ Len(inq[i]) < bufferSize
               /\ inq' = [inq EXCEPT ![i] = <<ritem[i]>> \o @]
               /\ rpc' = [rpc EXCEPT ![i] = "token"]
               /\ ritem' = [ritem EXCEPT ![i] = NoItem]
               /\ panic' = panic
    /\ UNCHANGED <<rloc, registry, clientFields, streams, inClosed, outq, outClosed, socket,
                   user, dpc, dloc, wpc, wloc, snap, counters, history>>

\* A variant that lets go of the element when the channel is full.
ReaderSendDropping(i) ==
    /\ panic = "" /\ rpc[i] = "send"
    /\ IF i \in inClosed
          THEN /\ panic' = "reader: send on closed channel"
               /\ UNCHANGED <<inq, rpc, ritem>>
          ELSE /\ inq' = [inq EXCEPT ![i] = IF Len(@) < bufferSize
                                               THEN Append(@, ritem[i]) ELSE @]
               /\ rpc' = [rpc EXCEPT ![i] = "token"]
               /\ ritem' = [ritem EXCEPT ![i] = NoItem]
               /\ panic' = panic
    /\ UNCHANGED <<rloc, registry, clientFields, streams, inClosed, outq, outClosed, socket,
                   user, dpc, dloc, wpc, wloc, snap, counters, history>>

\* r <- item, on the channel the goroutine was started with
ReaderSend(i) ==
    /\ panic = "" /\ rpc[i] = "send"
    /\ IF i \in inClosed
          THEN /\ panic' = "reader: send on closed channel"
               /\ UNCHANGED <<inq, rpc, ritem>>
          ELSE /\ Len(inq[i]) < bufferSize
               /\ inq' = [inq EXCEPT ![i] = Append(@, ritem[i])]
               /\ rpc' = [rpc EXCEPT ![i] = "token"]
               /\ ritem' = [ritem EXCEPT ![i] = NoItem]
               /\ panic' = panic
    /\ UNCHANGED <<rloc, registry, clientFields, streams, inClosed, outq, outClosed, socket,
                   user, dpc, dloc, wpc, wloc, snap, counters, history>>

\* decoder.Token on a decoder made over a nil stream: the read panics
ReaderNil(i) ==
    /\ panic = "" /\ rpc[i] = "token" /\ rdErr[i] = "nil"
    /\ panic' = "nil pointer dereference"
    /\ UNCHANGED <<registry, clientFields, streams, channels, socket, user, workers,
                   snap, counters, history>>

\* decoder.Token returns io.EOF: c.Disconnect(); return
ReaderEOF(i) ==
    /\ panic = "" /\ rpc[i] = "token" /\ rdErr[i] = "eof"
    /\ rpc' = [rpc EXCEPT ![i] = "disc"]
    /\ UNCHANGED <<registry, clientFields, streams, channels, socket, user, ritem, rloc, dpc,
                   dloc, wpc, wloc, panic, snap, counters, history>>

\* the server closes the connection: the reader's next read is io.EOF
ServerClose(i) ==
    /\ panic = "" /\ i <= nconn /\ i \notin connClosed /\ rdErr[i] = "none"
    /\ rdErr' = [rdErr EXCEPT ![i] = "eof"]
    /\ UNCHANGED <<registry, clientFields, streams, channels, connClosed, sent, user,
                   workers, panic, snap, counters, history>>

\* a read on a connection the client has closed: io.EOF, or another error,
\* which the decoder keeps and returns from every later Token call, so that
\* the reader's loop neither sends nor returns again
ClosedRead(i, e) ==
    /\ panic = "" /\ i \in connClosed /\ rdErr[i] = "none"
    /\ rdErr' = [rdErr EXCEPT ![i] = e]
    /\ UNCHANGED <<registry, clientFields, streams, channels, connClosed, sent, user,
                   workers, panic, snap, counters, history>>

-----------------------------------------------------------------------------
(* The socket writer of connection i (startWrite) *)

\* A variant that takes the newest command of the buffer.
WriterRecvNewest(i) ==
    /\ panic = "" /\ wpc[i] = "recv" /\ outq[i] # <<>>
    /\ outq' = [outq EXCEPT ![i] = SubSeq(@, 1, Len(@) - 1)]
    /\ wloc' = [wloc EXCEPT ![i].item = outq[i][Len(outq[i])]]
    /\ wpc' = [wpc EXCEPT ![i] = "write"]
    /\ UNCHANGED <<registry, clientFields, streams, inq, inClosed, outClosed, socket,
                   user, rpc, ritem, rloc, dpc, dloc, panic, snap, counters, history>>

\* for item := range w: the next command is taken from the channel
WriterRecv(i) ==
    /\ panic = "" /\ wpc[i] = "recv" /\ outq[i] # <<>>
    /\ outq' = [outq EXCEPT ![i] = Tail(@)]
    /\ wloc' = [wloc EXCEPT ![i].item = Head(outq[i])]
    /\ wpc' = [wpc EXCEPT ![i] = "write"]
    /\ UNCHANGED <<registry, clientFields, streams, inq, inClosed, outClosed, socket,
                   user, rpc, ritem, rloc, dpc, dloc, panic, snap, counters, history>>

\* xml.Marshal and conn.Write: a write on a nil stream panics, a failed
\* write (the stream is closed) is logged and the command is gone
WriterWrite(i) ==
    /\ panic = "" /\ wpc[i] = "write"
    /\ IF wloc[i].conn = 0
          THEN /\ panic' = "nil pointer dereference"
               /\ UNCHANGED <<sent, wpc, wloc>>
          ELSE /\ sent' = IF wloc[i].conn \in connClosed THEN sent
                          ELSE [sent EXCEPT ![wloc[i].conn] = Append(@, wloc[i].item)]
               /\ wloc' = [wloc EXCEPT ![i].item = NoItem]
               /\ wpc' = [wpc EXCEPT ![i] = "recv"]
               /\ panic' = panic
    /\ UNCHANGED <<registry, clientFields, streams, channels, connClosed, rdErr, user,
                   rpc, ritem, rloc, dpc, dloc, snap, counters, history>>

\* the range ends when the channel is closed and drained
WriterDone(i) ==
    /\ panic = "" /\ wpc[i] = "recv" /\ outq[i] = <<>> /\ i \in outClosed
    /\ wpc' = [wpc EXCEPT ![i] = "done"]
    /\ UNCHANGED <<registry, clientFields, streams, channels, socket, user, rpc, ritem, rloc,
                   dpc, dloc, wloc, panic, snap, counters, history>>


-----------------------------------------------------------------------------
(* The dispatcher of connection i (startRead, first goroutine), statement   *)
(* by statement: every Load, Store and map access of a handler is a step of *)
(* its own, and other goroutines run between them.  setBlobVector waits on  *)
(* the file system and on the subscribers' pipes.                           *)

\* the handler returns and the loop goes back to the channel
Ends(i) ==
    /\ dloc' = [dloc EXCEPT ![i] = NoDloc]
    /\ dpc' = [dpc EXCEPT ![i] = "recv"]

\* for i := range r: the next element is taken from the channel
DispatchRecv(i) ==
    /\ panic = "" /\ dpc[i] = "recv" /\ inq[i] # <<>>
    /\ inq' = [inq EXCEPT ![i] = Tail(@)]
    /\ applied' = [applied EXCEPT ![i] = Append(@, Head(inq[i]))]
    /\ dloc' = [dloc EXCEPT ![i] =
                    [NoDloc EXCEPT !.item = Head(inq[i]), !.was = R0,
                                   !.wasSubs = [k \in DOMAIN blobStreams |-> Writers(k)]]]
    /\ dpc' = [dpc EXCEPT ![i] = "load"]
    /\ UNCHANGED <<registry, clientFields, streams, inClosed, outq, outClosed, socket,
                   user, rpc, ritem, rloc, wpc, wloc, panic, snap, counters, snapView,
                   busyMarks, declPerm, readLog, queued, subs>>

\* the range ends when the channel is closed and drained
DispatchDone(i) ==
    /\ panic = "" /\ dpc[i] = "recv" /\ inq[i] = <<>> /\ i \in inClosed
    /\ dpc' = [dpc EXCEPT ![i] = "done"]
    /\ UNCHANGED <<registry, clientFields, streams, channels, socket, user, rpc, ritem, rloc,
                   dloc, wpc, wloc, panic, snap, counters, history>>

\* A variant in which a set*Vector looks its device up with
\* findOrCreateDevice.
DispatchLoadCreating(i) ==
    /\ panic = "" /\ dpc[i] = "load"
    /\ LET it == dloc[i].item
           fc == findOrCreateDevice(R0, it.Device)
       IN IF it.type = "delProperty" /\ it.Device = ""
             THEN /\ IF devices = EmptyMap
                        THEN Ends(i)
                        ELSE /\ dloc' = [dloc EXCEPT ![i].range.todo = DOMAIN devices]
                             /\ dpc' = [dpc EXCEPT ![i] = "clear"]
                  /\ UNCHANGED <<registry, busyMarks, declPerm>>
          ELSE IF it.type = "delProperty" /\ it.Name = ""
             THEN /\ devices' = MapDel(devices, it.Device)
                  /\ UNCHANGED <<dm, vm>>
                  /\ busyMarks' = MarksAfter(busyMarks, it)
                  /\ declPerm' = DeclAfter(declPerm, it)
                  /\ Ends(i)
          ELSE IF IsDef(it.type) \/ it.type = "delProperty"
             THEN /\ dm' = fc.dm
                  /\ dloc' = [dloc EXCEPT ![i].device = fc.device, ![i].j = 1]
                  /\ dpc' = [dpc EXCEPT ![i] = IF IsDef(it.type) THEN "write"
                                               ELSE "delete"]
                  /\ UNCHANGED <<devices, vm, busyMarks, declPerm>>
          ELSE IF IsSet(it.type)
             THEN /\ dm' = fc.dm
                  /\ dloc' = [dloc EXCEPT ![i].device = fc.device]
                  /\ dpc' = [dpc EXCEPT ![i] = "store"]
                  /\ UNCHANGED <<devices, vm, busyMarks, declPerm>>
          ELSE IF it.type \in {"setBLOBVector", "message"}
                  /\ findDevice(devices, it.Device).err = ErrNone
             THEN /\ dloc' = [dloc EXCEPT ![i].device =
                                  IF it.type = "message"
                                     THEN [findDevice(devices, it.Device).dev EXCEPT
                                              !.Messages = Append(@, it.Message)]
                                     ELSE findDevice(devices, it.Device).dev]
                  /\ dpc' = [dpc EXCEPT ![i] = IF it.type = "message" THEN "store"
                                               ELSE "find"]
                  /\ UNCHANGED <<registry, busyMarks, declPerm>>
          ELSE /\ Ends(i)
               /\ UNCHANGED <<registry, busyMarks, declPerm>>
    /\ UNCHANGED <<clientFields, streams, channels, socket, user, rpc, ritem, rloc, wpc, wloc,
                   panic, snap, counters, snapView, readLog, applied, queued, subs>>

\* the first statement of the handler.  A delProperty with no device enters
\* the Range over c.devices, which returns at once over an empty map; one
\* with a device and no name deletes the device and returns.  A def*Vector and a
\* delProperty with both names call findOrCreateDevice.  A set*Vector, a
\* setBLOBVector and a message call findDevice and return when the device is
\* not there; message appends to its copy of the struct.  Any other element
\* has no handler
DispatchLoad(i) ==
    /\ panic = "" /\ dpc[i] = "load"
    /\ LET it == dloc[i].item
           fc == findOrCreateDevice(R0, it.Device)
           f == findDevice(devices, it.Device)
       IN IF it.type = "delProperty" /\ it.Device = ""
             THEN /\ IF devices = EmptyMap
                        THEN Ends(i)
                        ELSE /\ dloc' = [dloc EXCEPT ![i].range.todo = DOMAIN devices]
                             /\ dpc' = [dpc EXCEPT ![i] = "clear"]
                  /\ UNCHANGED <<registry, busyMarks, declPerm>>
          ELSE IF it.type = "delProperty" /\ it.Name = ""
             THEN /\ devices' = MapDel(devices, it.Device)
                  /\ UNCHANGED <<dm, vm>>
                  /\ busyMarks' = MarksAfter(busyMarks, it)
                  /\ declPerm' = DeclAfter(declPerm, it)
                  /\ Ends(i)
          ELSE IF IsDef(it.type) \/ it.type = "delProperty"
             THEN /\ dm' = fc.dm
                  /\ dloc' = [dloc EXCEPT ![i].device = fc.device, ![i].j = 1]
                  /\ dpc' = [dpc EXCEPT ![i] = IF IsDef(it.type) THEN "write"
                                               ELSE "delete"]
                  /\ UNCHANGED <<devices, vm, busyMarks, declPerm>>
          ELSE IF (IsSet(it.type) \/ it.type \in {"setBLOBVector", "message"})
                  /\ f.err = ErrNone
             THEN /\ dloc' = [dloc EXCEPT ![i].device =
                                  IF it.type = "message"
                                     THEN [f.dev EXCEPT !.Messages = Append(@, it.Message)]
                                     ELSE f.dev]
                  /\ dpc' = [dpc EXCEPT ![i] = IF it.type = "message" THEN "store"
                                               ELSE "find"]
                  /\ UNCHANGED <<registry, busyMarks, declPerm>>
          ELSE /\ Ends(i)
               /\ UNCHANGED <<registry, busyMarks, declPerm>>
    /\ UNCHANGED <<clientFields, streams, channels, socket, user, rpc, ritem, rloc, wpc, wloc,
                   panic, snap, counters, snapView, readLog, applied, queued, subs>>

\* the Range of a delProperty with no device comes to the key d
DispatchClearKey(i, d) ==
    /\ panic = "" /\ dpc[i] = "clear"
    /\ RangeAt(dloc[i].range, d)
    /\ DeleteKey(d)
    /\ dloc' = [dloc EXCEPT ![i].range = RangePast(@, d)]
    /\ UNCHANGED <<dm, vm, clientFields, streams, channels, socket, user, rpc, ritem, rloc,
                   dpc, wpc, wloc, panic, snap, counters, snapView, readLog, applied,
                   queued, subs>>

\* the Range has come to every key it was entered with: the handler returns
DispatchCleared(i) ==
    /\ panic = "" /\ dpc[i] = "clear" /\ dloc[i].range.todo = {}
    /\ Ends(i)
    /\ UNCHANGED <<registry, clientFields, streams, channels, socket, user, rpc, ritem,
                   rloc, wpc, wloc, panic, snap, counters, history>>

\* a set*Vector or setBLOBVector reads the property through the struct in
\* hand and returns when it is not there; its copy takes the element's
\* state and timeout (setLightVector leaves the timeout)
DispatchFind(i) ==
    /\ panic = "" /\ dpc[i] = "find"
    /\ \/ /\ LET it == dloc[i].item
                 kind == KindOf(it.type)
                 props == dm[dloc[i].device.Maps][kind]
             IN IF it.Name \notin DOMAIN props
                   THEN Ends(i)
                   ELSE /\ dloc' = [dloc EXCEPT
                                      ![i].prop = [props[it.Name] EXCEPT
                                                     !.State = it.State,
                                                     !.Timeout = IF kind = "Light" THEN @
                                                                 ELSE it.Timeout],
                                      ![i].j = 1]
                        /\ dpc' = [dpc EXCEPT ![i] = IF kind = "Blob" THEN "blob" ELSE "value"]
          /\ UNCHANGED <<registry, clientFields, streams, channels, socket, user, rpc, ritem, rloc,
                         wpc, wloc, panic, snap, counters, history>>
       \/ MapRace(<<"dispatcher", i>>, DispatcherAccesses(i))

\* one round of the loop over the inner values of a set*Vector:
\* v, ok := prop.Values[val.Name]; ...; prop.Values[val.Name] = v, in place
DispatchValue(i) ==
    /\ panic = "" /\ dpc[i] = "value" /\ dloc[i].j <= Len(dloc[i].item.Items)
    /\ \/ /\ vm' = [vm EXCEPT ![dloc[i].prop.Values] =
                        setValues(<<dloc[i].item.Items[dloc[i].j]>>, @)]
          /\ dloc' = [dloc EXCEPT ![i].j = @ + 1]
          /\ UNCHANGED <<devices, dm, clientFields, streams, channels, socket, user, rpc,
                         ritem, rloc, dpc, wpc, wloc, panic, snap, counters, history>>
       \/ MapRace(<<"dispatcher", i>>, DispatcherAccesses(i))

\* a def*Vector: the new property with its new Values map, and
\* device.<Kind>Properties[item.Name] = prop, in place
DispatchDefWrite(i) ==
    /\ panic = "" /\ dpc[i] = "write"
    /\ \/ /\ LET it == dloc[i].item
                 kind == KindOf(it.type)
             IN /\ vm' = Append(vm, IF kind = "Blob" THEN defBlobValues(it.Items, EmptyMap)
                                      ELSE defValues(it.Items, EmptyMap))
                /\ dm' = [dm EXCEPT ![dloc[i].device.Maps][kind] =
                              MapPut(@, it.Name, defProperty(kind, it, Len(vm) + 1))]
                /\ busyMarks' = MarksAfter(busyMarks, it)
                /\ declPerm' = DeclAfter(declPerm, it)
          /\ dpc' = [dpc EXCEPT ![i] = "store"]
          /\ UNCHANGED <<devices, clientFields, streams, channels, socket, user, rpc, ritem, rloc,
                         dloc, wpc, wloc, panic, snap, counters, snapView, readLog, applied,
                         queued, subs>>
       \/ MapRace(<<"dispatcher", i>>, DispatcherAccesses(i))

\* a set*Vector after its loop: the message is appended to the copy, and
\* device.<Kind>Properties[item.Name] = prop, in place
DispatchSetWrite(i) ==
    /\ panic = "" /\ dpc[i] = "value" /\ dloc[i].j > Len(dloc[i].item.Items)
    /\ \/ /\ LET it == dloc[i].item IN
             /\ dm' = [dm EXCEPT ![dloc[i].device.Maps][KindOf(it.type)] =
                           MapPut(@, it.Name, [dloc[i].prop EXCEPT
                                                  !.Messages = appendMessage(@, it.Message)])]
             /\ busyMarks' = MarksAfter(busyMarks, it)
          /\ dpc' = [dpc EXCEPT ![i] = "store"]
          /\ UNCHANGED <<devices, vm, clientFields, streams, channels, socket, user, rpc,
                         ritem, rloc, dloc, wpc, wloc, panic, snap, counters, snapView, declPerm,
                         readLog, applied, queued, subs>>
       \/ MapRace(<<"dispatcher", i>>, DispatcherAccesses(i))

\* A variant that deletes the name from the text properties only.
DispatchDeleteText(i) ==
    /\ panic = "" /\ dpc[i] = "delete"
    /\ LET it == dloc[i].item IN
       /\ dm' = [dm EXCEPT ![dloc[i].device.Maps]["Text"] = MapDel(@, it.Name)]
       /\ busyMarks' = MarksAfter(busyMarks, it)
       /\ declPerm' = DeclAfter(declPerm, it)
    /\ uloc' = RangedAfterDelete(dloc[i].device.Maps, "Text", dloc[i].item.Name)
    /\ dloc' = [dloc EXCEPT ![i].j = 6]
    /\ dpc' = [dpc EXCEPT ![i] = "store"]
    /\ UNCHANGED <<devices, vm, clientFields, streams, channels, socket, upc, ret, rpc,
                   ritem, rloc, wpc, wloc, panic, snap, counters, snapView, readLog, applied,
                   queued, subs>>

\* a delProperty with both names: delete(device.<Kind>Properties, item.Name),
\* one map after the other
DispatchDelete(i) ==
    /\ panic = "" /\ dpc[i] = "delete"
    /\ \/ /\ LET it == dloc[i].item IN
             /\ dm' = [dm EXCEPT ![dloc[i].device.Maps][DelOrder[dloc[i].j]] =
                           MapDel(@, it.Name)]
             /\ busyMarks' = MarksAfter(busyMarks, it)
             /\ declPerm' = DeclAfter(declPerm, it)
          /\ uloc' = RangedAfterDelete(dloc[i].device.Maps, DelOrder[dloc[i].j],
                                       dloc[i].item.Name)
          /\ dloc' = [dloc EXCEPT ![i].j = @ + 1]
          /\ dpc' = [dpc EXCEPT ![i] = IF dloc[i].j = Len(DelOrder) THEN "store" ELSE "delete"]
          /\ UNCHANGED <<devices, vm, clientFields, streams, channels, socket, upc, ret, rpc,
                         ritem, rloc, wpc, wloc, panic, snap, counters, snapView, readLog,
                         applied, queued, subs>>
       \/ MapRace(<<"dispatcher", i>>, DispatcherAccesses(i))

\* c.devices.Store(item.Device, device), with the struct in hand; return
DispatchStore(i) ==
    /\ panic = "" /\ dpc[i] = "store"
    /\ devices' = MapPut(devices, dloc[i].item.Device, dloc[i].device)
    /\ busyMarks' = MarksAfter(busyMarks, dloc[i].item)
    /\ Ends(i)
    /\ UNCHANGED <<dm, vm, clientFields, streams, channels, socket, user, rpc, ritem, rloc,
                   wpc, wloc, panic, snap, counters, snapView, declPerm, readLog, applied,
                   queued, subs>>

\* the steps of the handlers that wait for nothing
Handling(i) ==
    \/ DispatchLoad(i) \/ DispatchFind(i) \/ DispatchValue(i) \/ DispatchDefWrite(i)
    \/ DispatchSetWrite(i) \/ DispatchDelete(i) \/ DispatchStore(i)
    \/ DispatchCleared(i)
    \/ \E d \in DeviceNames : DispatchClearKey(i, d)

\* the copy has failed: continue
copyFailed(l) ==
    [l EXCEPT !.j = @ + 1, !.dec = NewDecoder(<<>>), !.chunk = <<>>, !.rerr = "",
              !.k = 0, !.off = 0, !.ws = <<>>, !.written = 0, !.fname = "",
              !.abandoned = {}]

\* io.Copy reads: the locals after r.Read(buf), and where the dispatcher is
\* then.  With bytes read it is in a round of the copy, before the first
\* writer; with none and io.EOF the copy has returned nil; with none and
\* another error the copy has failed and the loop continues
copyRead(l) ==
    LET Read(r) ==
            IF r.data # <<>>
                THEN [l |-> [l EXCEPT !.dec = r.d, !.chunk = r.data, !.rerr = r.err,
                                      !.k = 1, !.off = 0],
                      pc |-> "copy"]
            ELSE IF r.err = "EOF"
                THEN [l |-> [l EXCEPT !.dec = r.d, !.chunk = <<>>, !.rerr = "", !.k = 0,
                                      !.off = 0],
                      pc |-> "copied"]
            ELSE [l |-> copyFailed(l), pc |-> "blob"]
    IN Only({Read(r) : r \in {decoderRead(l.dec)}})

\* the writers are collected, the file last: the decoder over the trimmed
\* character data, io.MultiWriter, and io.Copy's first Read
copyStart(l) ==
    copyRead([l EXCEPT !.wmap = 0, !.range = NoRange, !.written = 0,
                       !.dec = NewDecoder(TrimSpace(l.item.Items[l.j].Value))])

\* one oneBLOB of the loop: v, ok := prop.Values[val.Name], and c.fs.OpenFile
\* with O_CREATE|O_TRUNC.  fsok is whether OpenFile succeeds
BlobEntry(i, fsok) ==
    /\ panic = "" /\ dpc[i] = "blob" /\ dloc[i].j <= Len(dloc[i].item.Items)
    /\ \/ /\ LET l == dloc[i]
                 val == l.item.Items[l.j]
                 fname == SinkName(l.item.Device, l.item.Name, val.Name, val.Format)
             IN IF val.Name \notin DOMAIN vm[l.prop.Values] \/ ~fsok
                   THEN /\ dloc' = [dloc EXCEPT ![i].j = @ + 1]
                        /\ UNCHANGED <<dpc, files>>
                   ELSE /\ files' = MapPut(files, fname, <<>>)
                        /\ dloc' = [dloc EXCEPT
                                       ![i].fname = fname,
                                       ![i].abandoned =
                                          {w \in Writers(EntryKey(i)) :
                                              pipes[w].rclosed /\ w \notin subs.closed}]
                        /\ dpc' = [dpc EXCEPT ![i] = "writers"]
          /\ UNCHANGED <<registry, clientFields, blobStreams, wm, spc, pipes, channels, socket, user,
                         rpc, ritem, rloc, wpc, wloc, panic, snap, counters, history>>
       \/ MapRace(<<"dispatcher", i>>, DispatcherAccesses(i))

\* wss, ok := c.blobStreams.Load(key): with a map under the key the range
\* over it follows; with none the file is the only writer and the copy begins
BlobWriters(i) ==
    /\ panic = "" /\ dpc[i] = "writers"
    /\ IF EntryKey(i) \in DOMAIN blobStreams
          THEN /\ dloc' = [dloc EXCEPT ![i].wmap = blobStreams[EntryKey(i)]]
               /\ dpc' = [dpc EXCEPT ![i] = "range"]
          ELSE \E c \in {copyStart(dloc[i])} :
                  /\ dloc' = [dloc EXCEPT ![i] = c.l]
                  /\ dpc' = [dpc EXCEPT ![i] = c.pc]
    /\ UNCHANGED <<registry, clientFields, streams, channels, socket, user, rpc, ritem, rloc,
                   wpc, wloc, panic, snap, counters, history>>

\* for _, w := range wss is entered.  The range is no snapshot of the map,
\* which the subscribing goroutines write in place meanwhile: it yields the
\* entries one by one, none twice; an entry that is in the map from the
\* entering on is yielded, one deleted before the range comes to it is not,
\* and one put in meanwhile is yielded or passed over.  todo has the ids in
\* the map at the entering.  Over an empty map the range ends at once
BlobRangeEnter(i) ==
    /\ panic = "" /\ dpc[i] = "range"
    /\ \/ /\ IF wm[dloc[i].wmap] = {}
                THEN \E c \in {copyStart(dloc[i])} :
                        /\ dloc' = [dloc EXCEPT ![i] = c.l]
                        /\ dpc' = [dpc EXCEPT ![i] = c.pc]
                ELSE /\ dloc' = [dloc EXCEPT ![i].range =
                                                [todo |-> wm[dloc[i].wmap], seen |-> {}]]
                     /\ dpc' = [dpc EXCEPT ![i] = "visit"]
          /\ UNCHANGED <<registry, clientFields, streams, channels, socket, user, rpc, ritem, rloc,
                         wpc, wloc, panic, snap, counters, history>>
       \/ MapRace(<<"dispatcher", i>>, DispatcherAccesses(i))

\* the range yields the pipe w, which is in the map now and was not yielded
\* before: writers = append(writers, w)
BlobRangeVisit(i, w) ==
    /\ panic = "" /\ dpc[i] = "visit"
    /\ \/ /\ w \in wm[dloc[i].wmap] /\ w \notin dloc[i].range.seen
          /\ dloc' = [dloc EXCEPT ![i].ws = Append(@, w),
                                  ![i].range.seen = @ \cup {w}]
          /\ UNCHANGED <<registry, clientFields, streams, channels, socket, user, rpc, ritem, rloc,
                         dpc, wpc, wloc, panic, snap, counters, history>>
       \/ MapRace(<<"dispatcher", i>>, DispatcherAccesses(i))

\* the range ends: every id that was in the map at the entering and is in
\* it still has been yielded.  writers = append(writers, f), and the copy
\* begins
BlobRangeEnd(i) ==
    /\ panic = "" /\ dpc[i] = "visit"
    /\ \/ /\ (dloc[i].range.todo \cap wm[dloc[i].wmap]) \subseteq dloc[i].range.seen
          /\ \E c \in {copyStart(dloc[i])} :
                /\ dloc' = [dloc EXCEPT ![i] = c.l]
                /\ dpc' = [dpc EXCEPT ![i] = c.pc]
          /\ UNCHANGED <<registry, clientFields, streams, channels, socket, user, rpc, ritem, rloc,
                         wpc, wloc, panic, snap, counters, history>>
       \/ MapRace(<<"dispatcher", i>>, DispatcherAccesses(i))

\* the writer a round of the copy has come to is pipe w
CopyAt(i, w) ==
    /\ dpc[i] = "copy" /\ dloc[i].k <= Len(dloc[i].ws) /\ dloc[i].ws[dloc[i].k] = w

\* the bytes of the round that pipe w has yet to take, n of them at most
Taking(i, n) ==
    LET l == dloc[i]
        m == IF Len(l.chunk) - l.off < n THEN Len(l.chunk) - l.off ELSE n
    IN SubSeq(l.chunk, l.off + 1, l.off + m)

\* the locals when the writer in hand has taken more bytes; with all the
\* bytes of the round taken its Write returns and the next writer is in hand
Took(l, bytes) ==
    IF l.off + Len(bytes) = Len(l.chunk)
        THEN [l EXCEPT !.k = @ + 1, !.off = 0]
        ELSE [l EXCEPT !.off = @ + Len(bytes)]

\* A variant in which a failed copy ends the handler instead of the entry.
BlobPipeErrorReturns(i, w) ==
    /\ panic = "" /\ CopyAt(i, w)
    /\ pipes[w].wclosed \/ pipes[w].rclosed
    /\ Ends(i)
    /\ UNCHANGED <<registry, clientFields, streams, channels, socket, user, rpc, ritem, rloc,
                   wpc, wloc, panic, snap, counters, history>>

\* io.Copy's Write on a subscriber's pipe fails, the pipe being closed: the
\* copy is given up (continue), the value is not updated
BlobPipeError(i, w) ==
    /\ panic = "" /\ CopyAt(i, w)
    /\ pipes[w].wclosed \/ pipes[w].rclosed
    /\ dloc' = [dloc EXCEPT ![i] = copyFailed(@)]
    /\ dpc' = [dpc EXCEPT ![i] = "blob"]
    /\ UNCHANGED <<registry, clientFields, streams, channels, socket, user, rpc, ritem, rloc,
                   wpc, wloc, panic, snap, counters, history>>

\* a subscriber calls Read on its pipe with a buffer of n bytes: it takes
\* that many of the bytes the Write io.Copy is waiting in has left, and the
\* Write returns when none is left
ReadBlobStream(w, n) ==
    /\ panic = "" /\ w \in DOMAIN pipes
    /\ n < CopyBuf => pipes[w].short < MaxShortReads
    /\ \E i \in Conns :
          /\ CopyAt(i, w)
          /\ ~pipes[w].wclosed /\ ~pipes[w].rclosed
          /\ pipes' = [pipes EXCEPT ![w].got = @ \o Taking(i, n),
                                    ![w].short = IF n < CopyBuf THEN @ + 1 ELSE @]
          /\ dloc' = [dloc EXCEPT ![i] = Took(@, Taking(i, n))]
    /\ UNCHANGED <<registry, clientFields, blobStreams, wm, spc, files, channels, socket, user,
                   rpc, ritem, rloc, dpc, wpc, wloc, panic, snap, counters, history>>

\* r.Close() on the io.ReadCloser of pipe w
CloseReader(w) ==
    /\ panic = "" /\ w \in DOMAIN pipes /\ ~pipes[w].rclosed
    /\ pipes' = [pipes EXCEPT ![w].rclosed = TRUE]
    /\ UNCHANGED <<registry, clientFields, blobStreams, wm, spc, files, channels, socket,
                   user, workers, panic, snap, counters, history>>

\* f.Write(p) on a handle whose offset is off, the file having the bytes
\* file: the bytes of p take the places after off, over what is there, and
\* lengthen the file; places between the file's end and off read as zero
WriteAt(file, off, p) ==
    [n \in 1..(IF Len(file) > off + Len(p) THEN Len(file) ELSE off + Len(p)) |->
        IF n > off /\ n <= off + Len(p) THEN p[n - off]
        ELSE IF n <= Len(file) THEN file[n]
        ELSE 0]

\* the last writer of the round is the file, written at the offset of the
\* entry's handle, which is the bytes the handle wrote before.  Then the
\* round ends: an error read with the bytes ends the copy (continue), or
\* io.Copy reads again
BlobWriteFile(i) ==
    /\ panic = "" /\ dpc[i] = "copy" /\ dloc[i].k > Len(dloc[i].ws)
    /\ LET l == [dloc[i] EXCEPT !.written = @ + Len(dloc[i].chunk)] IN
       /\ files' = [files EXCEPT ![l.fname] = WriteAt(@, dloc[i].written, l.chunk)]
       /\ IF l.rerr # ""
             THEN /\ dloc' = [dloc EXCEPT ![i] = copyFailed(l)]
                  /\ dpc' = [dpc EXCEPT ![i] = "blob"]
             ELSE \E c \in {copyRead(l)} :
                     /\ dloc' = [dloc EXCEPT ![i] = c.l]
                     /\ dpc' = [dpc EXCEPT ![i] = c.pc]
    /\ UNCHANGED <<registry, clientFields, blobStreams, wm, spc, pipes, channels, socket,
                   user, rpc, ritem, rloc, wpc, wloc, panic, snap, counters, history>>

\* the copy has returned nil: v.Value = f.Name(); v.Size = written;
\* f.Close(); prop.Values[val.Name] = v, in place
BlobValue(i) ==
    /\ panic = "" /\ dpc[i] = "copied"
    /\ \/ /\ LET l == dloc[i]
                 val == l.item.Items[l.j]
             IN vm' = [vm EXCEPT ![l.prop.Values] =
                          MapPut(@, val.Name, [Value |-> l.fname, Size |-> l.written])]
          /\ dloc' = [dloc EXCEPT ![i] = copyFailed(@)]
          /\ dpc' = [dpc EXCEPT ![i] = "blob"]
          /\ UNCHANGED <<devices, dm, clientFields, streams, channels, socket, user, rpc, ritem, rloc,
                         wpc, wloc, panic, snap, counters, history>>
       \/ MapRace(<<"dispatcher", i>>, DispatcherAccesses(i))

\* after the loop: the message, and device.BlobProperties[item.Name] = prop,
\* in place; the Store follows
BlobEnd(i) ==
    /\ panic = "" /\ dpc[i] = "blob" /\ dloc[i].j > Len(dloc[i].item.Items)
    /\ \/ /\ LET l == dloc[i] IN
             /\ dm' = [dm EXCEPT ![l.device.Maps]["Blob"] =
                           MapPut(@, l.item.Name,
                                  [l.prop EXCEPT !.Messages = appendMessage(@, l.item.Message)])]
             /\ busyMarks' = MarksAfter(busyMarks, l.item)
          /\ dpc' = [dpc EXCEPT ![i] = "store"]
          /\ UNCHANGED <<devices, vm, clientFields, streams, channels, socket, user, rpc, ritem, rloc,
                         dloc, wpc, wloc, panic, snap, counters, snapView, declPerm, readLog,
                         applied, queued, subs>>
       \/ MapRace(<<"dispatcher", i>>, DispatcherAccesses(i))


-----------------------------------------------------------------------------
(* The connection engine: lifecycle, queues and workers.  The server sends  *)
(* elements of Wire in any order; the application makes any of the calls.   *)

DefTextRW ==
    Elem("defTextVector", "d1", "p1", "Ok", "rw", 60, "", <<One("v1", <<" ", "a">>, "")>>)

Wire == {DefTextRW}

Reader(i) ==
    \/ nread < MaxLifeRead /\ \E e \in Wire : ReaderToken(i, e)
    \/ ReaderSend(i)
    \/ ReaderEOF(i)
    \/ ReaderNil(i)
    \/ DiscClear(i) \/ DiscCleared(i) \/ DiscCheck(i) \/ DiscClose(i)
    \/ \E d \in DeviceNames : DiscClearKey(i, d)
    \/ DiscNil(i) \/ DiscCloseRead(i) \/ DiscCloseWrite(i)

Dispatcher(i) ==
    \/ DispatchRecv(i)
    \/ DispatchLoad(i) \/ DispatchDefWrite(i) \/ DispatchStore(i)
    \/ DispatchDone(i)

Writer(i) ==
    \/ WriterRecv(i)
    \/ WriterWrite(i)
    \/ WriterDone(i)

UserDisconnect ==
    \/ DiscClear(0) \/ DiscCleared(0) \/ DiscCheck(0) \/ DiscClose(0)
    \/ \E d \in DeviceNames : DiscClearKey(0, d)
    \/ DiscNil(0) \/ DiscCloseRead(0) \/ DiscCloseWrite(0)

Stream(i) ==
    \/ ServerClose(i)
    \/ \E e \in {"eof", "err"} : ClosedRead(i, e)

Next ==
    \/ \E ok \in BOOLEAN : Connect(ok)
    \/ Connecting
    \/ ConnectClearing
    \/ Disconnect
    \/ UserDisconnect
    \/ GetProperties("", "")
    \/ SetTextValue("d1", "p1", "v1")
    \/ Setting
    \/ Send
    \/ Wake
    \/ \E i \in Conns : Reader(i) \/ Dispatcher(i) \/ Writer(i) \/ Stream(i)

Spec == Init /\ [][Next]_vars

\* The goroutines run whenever they can: the caller inside a call, and the
\* three workers of each connection.  A read on a stream the client closed
\* returns.  Nothing obliges the server to send or to close, nor the
\* application to make a call.
UserSteps == Connecting \/ ConnectClearing \/ UserDisconnect \/ Setting \/ Send \/ Wake

ReaderSteps(i) ==
    \/ ReaderSend(i)
    \/ ReaderEOF(i)
    \/ ReaderNil(i)
    \/ DiscClear(i) \/ DiscCleared(i) \/ DiscCheck(i) \/ DiscClose(i)
    \/ \E d \in DeviceNames : DiscClearKey(i, d)
    \/ DiscNil(i) \/ DiscCloseRead(i) \/ DiscCloseWrite(i)

Fairness ==
    /\ WF_vars(UserSteps)
    /\ \A i \in Conns :
          /\ WF_vars(ReaderSteps(i))
          /\ WF_vars(Dispatcher(i))
          /\ WF_vars(Writer(i))
          /\ WF_vars(\E e \in {"eof", "err"} : ClosedRead(i, e))

LiveSpec == Spec /\ Fairness

-----------------------------------------------------------------------------
(* BLOB delivery: the server defines a BLOB property and sends payloads for *)
(* it; two goroutines of the application subscribe to the value side by     *)
(* side, and the subscribers read their streams, or do not, or close them.  *)

\* base64 of the one byte "1"
PayloadOne == <<"M", "Q", "=", "=">>

DefBlob ==
    Elem("defBLOBVector", "d1", "p1", "Idle", "ro", 0, "", <<One("v1", <<>>, "")>>)

SetBlobOne ==
    Elem("setBLOBVector", "d1", "p1", "Ok", "", 0, "", <<One("v1", PayloadOne, ".fits")>>)

\* base64 of 765 zero bytes, of the byte "M" with its padding, and of "Man":
\* the padded quantum ends the first DecoderBuf characters, which one Read of
\* the decoder takes in, and the last quantum comes with the next Read
PayloadLong ==
    [n \in 1..(DecoderBuf + 4) |->
        IF n <= DecoderBuf - 4 THEN "A"
        ELSE <<"T", "Q", "=", "=", "T", "W", "F", "u">>[n - (DecoderBuf - 4)]]

SetBlobLong ==
    Elem("setBLOBVector", "d1", "p1", "Ok", "", 0, "", <<One("v1", PayloadLong, ".fits")>>)

\* the server defines the BLOB, and sets it with the payload of two rounds
\* or with one that has white space around it and a line break in it, with a
\* second oneBLOB for a value the property does not have
BlobWire ==
    {DefBlob, SetBlobLong,
     Elem("setBLOBVector", "d1", "p1", "Busy", "", 0, "",
          <<One("v1", <<" ", "T", "W", "F", "u", "\n", "T", "Q", "=", "=", " ">>, ".bin"),
            One("v2", PayloadOne, ".bin")>>)}

BlobReader(i) ==
    \/ \E e \in BlobWire : ReaderToken(i, e)
    \/ ReaderSend(i)

BlobDispatcher(i) ==
    \/ DispatchRecv(i)
    \/ DispatchLoad(i) \/ DispatchFind(i) \/ DispatchDefWrite(i) \/ DispatchStore(i)
    \/ \E fsok \in BOOLEAN : BlobEntry(i, fsok)
    \/ BlobWriters(i)
    \/ BlobWriteFile(i)
    \/ BlobValue(i)
    \/ BlobEnd(i)

\* the range over the writers map of a key that has subscribers
BlobRange(i) ==
    \/ BlobRangeEnter(i)
    \/ \E w \in 1..MaxCalls : BlobRangeVisit(i, w)
    \/ BlobRangeEnd(i)

\* the buffers a subscriber reads with: one byte, or room for all a round of
\* the copy can bring
ReadSizes == {1, CopyBuf}

\* GetBlobStream for d1/p1/v1 on goroutine c, statement by statement
Subscribing(c) ==
    \/ Len(pipes) < MaxStreams /\ GetBlobStreamLoad(c, "d1", "p1", "v1")
    \/ GetBlobStreamPut(c)
    \/ GetBlobStreamStore(c)

BlobNext ==
    \/ ConnectOnce
    \/ Connecting
    \/ \E c \in Subscribers : Subscribing(c)
    \/ \E w \in 1..MaxStreams, n \in ReadSizes : ReadBlobStream(w, n)
    \/ \E i \in Conns : BlobReader(i) \/ BlobDispatcher(i) \/ BlobRange(i)

\* The workers run whenever they can.  Nothing obliges a subscriber to read.
BlobFairness ==
    \A i \in Conns : WF_vars(ReaderSend(i)) /\ WF_vars(BlobDispatcher(i) \/ BlobRange(i))

BlobSpec == Init /\ [][BlobNext]_vars /\ BlobFairness

\* The stall of the inbound queue: the server defines the BLOB property,
\* sends one byte for it and then defines a Text property, and the
\* application's goroutine subscribes, each GetBlobStream call one step, and
\* reads or does not.
StallWire == {DefBlob, SetBlobOne, DefTextRW}

StallReader(i) ==
    \/ \E e \in StallWire : ReaderToken(i, e)
    \/ ReaderSend(i)

StallNext ==
    \/ ConnectOnce
    \/ Connecting
    \/ GetBlobStream("d1", "p1", "v1")
    \/ \E w \in 1..MaxCalls, n \in ReadSizes : ReadBlobStream(w, n)
    \/ \E i \in Conns : StallReader(i) \/ BlobDispatcher(i) \/ BlobRange(i)

StallSpec == Init /\ [][StallNext]_vars /\ BlobFairness

\* the elements of a sequence
Range(q) == {q[n] : n \in DOMAIN q}

\* the sequence q ends with the sequence tail
EndsWith(q, tail) ==
    Len(tail) <= Len(q) /\ SubSeq(q, Len(q) - Len(tail) + 1, Len(q)) = tail

\* the pipes that were registered under the key of the entry the dispatcher
\* of connection i is at when its element was taken from the channel
RegisteredBefore(i) ==
    IF EntryKey(i) \in DOMAIN dloc[i].wasSubs THEN dloc[i].wasSubs[EntryKey(i)] ELSE {}

\* C17: when the copy of a oneBLOB for a defined value V of BLOB property P of
\* device D, with format F, has ended without error and the value is set, the
\* file named D_P_V followed by F holds exactly the bytes the trimmed payload
\* decodes to, the value's Value is that name and its Size the number of
\* those bytes, and every pipe that was registered under the key D_P_V when
\* the element was taken from the channel has received those bytes, as the
\* last it received.
C17_BlobReachesSinkAndSubscribers ==
    [][\A i \in Conns :
          (BlobValue(i) /\ panic' = "") =>
             \A it \in {dloc[i].item} :
             \A val \in {dloc[i].item.Items[dloc[i].j]} :
             \A dec \in {base64Decode(TrimSpace(val.Value))} :
             \A path \in {it.Device \o "_" \o it.Name \o "_" \o val.Name \o val.Format} :
                /\ ~dec.err
                /\ path \in DOMAIN files' /\ files'[path] = dec.data
                /\ vm'[dloc[i].prop.Values][val.Name] =
                      [Value |-> path, Size |-> Len(dec.data)]
                /\ \A w \in RegisteredBefore(i) : EndsWith(pipes'[w].got, dec.data)]_vars

\* the pipes whose GetBlobStream call, for the key of the entry the
\* dispatcher of connection i is at, began and returned during one copy for
\* that key
RegisteredDuring(i) == {w \in subs.during : subs.key[w] = EntryKey(i)}

\* C34: the pipes a copy writes to stay the same while it lasts; a pipe
\* receives bytes only from a copy that has it among its writers, and then
\* the next bytes of that copy; a pipe whose GetBlobStream call began and
\* returned during a copy is not among the writers of that copy, and it is
\* among the writers of every copy for the key that begins later; and when a
\* copy ends without error, each of its writers has received all its bytes,
\* as the last it received.
C34_SubscribersFixedAtCopyStart ==
    [][/\ \A i \in Conns :
             (dpc[i] = "copy" /\ dpc'[i] = "copy") => dloc'[i].ws = dloc[i].ws
       /\ \A w \in DOMAIN pipes' :
             IF w \notin DOMAIN pipes THEN pipes'[w].got = <<>>
             ELSE pipes'[w].got # pipes[w].got =>
                     \E i \in Conns :
                        /\ dpc[i] = "copy" /\ w \in Range(dloc[i].ws)
                        /\ dloc[i].ws[dloc[i].k] = w
                        /\ \E n \in 1..(Len(dloc[i].chunk) - dloc[i].off) :
                              pipes'[w].got =
                                 pipes[w].got \o SubSeq(dloc[i].chunk, dloc[i].off + 1,
                                                        dloc[i].off + n)
       /\ \A w \in subs'.during \ subs.during : \A i \in Conns :
             (dpc[i] = "copy" /\ EntryKey(i) = subs'.key[w]) =>
                (w \notin Range(dloc[i].ws) /\ pipes[w].got = <<>>)
       /\ \A i \in Conns :
             (dpc[i] \in {"writers", "range", "visit"} /\ dpc'[i] \in {"copy", "copied"}) =>
                RegisteredDuring(i) \subseteq Range(dloc'[i].ws)
       /\ \A i \in Conns :
             (BlobValue(i) /\ panic' = "") =>
                \A w \in Range(dloc[i].ws) :
                   EndsWith(pipes[w].got, files[dloc[i].fname])]_vars

\* C3: as long as the process runs, an element on the inbound queue is taken
\* by the dispatcher in the end, whether or not the subscribers of a BLOB
\* read their streams.
C3_InboundDrains ==
    \A i \in Conns : (inq[i] # <<>>) ~> (inq[i] = <<>> \/ panic # "")

-----------------------------------------------------------------------------
(* The facade over a live registry: the server defines and updates          *)
(* properties while the application takes snapshots and sets values.        *)

DefTextRO ==
    Elem("defTextVector", "d1", "p2", "Idle", "ro", 0, "", <<One("v1", <<"a">>, "")>>)

SetTextOk ==
    Elem("setTextVector", "d1", "p1", "Ok", "", 0, "", <<One("v1", <<"b", " ">>, "")>>)

DelDevice == Elem("delProperty", "d1", "", "", "", 0, "", <<>>)

FacadeWire == {DefTextRW, DefTextRO, SetTextOk, DefBlob, DelDevice}

FacadeDevices == {"d1", "d2"}
FacadeProperties == {"p1", "p2"}
FacadeValues == {"v1", "v2"}

FacadeReader(i) ==
    \/ \E e \in FacadeWire : ReaderToken(i, e)
    \/ ReaderSend(i)

FacadeDispatcher(i) ==
    \/ DispatchRecv(i)
    \/ DispatchLoad(i) \/ DispatchFind(i) \/ DispatchValue(i) \/ DispatchDefWrite(i)
    \/ DispatchSetWrite(i) \/ DispatchStore(i)

FacadeNext ==
    \/ ConnectOnce
    \/ Connecting
    \/ Devices
    \/ \E d \in FacadeDevices : DevicesVisit(d) \/ DevicesSkip(d)
    \/ DevicesReturn
    \/ \E d \in FacadeDevices, p \in FacadeProperties, v \in FacadeValues :
          SetTextValue(d, p, v)
    \/ SetNumberValue("d1", "p1", "v1")
    \/ SetSwitchValue("d1", "p1", "v1")
    \/ SetBlobValue("d1", "p1", "v1")
    \/ Setting
    \/ Send
    \/ Wake
    \/ \E i \in Conns : FacadeReader(i) \/ FacadeDispatcher(i) \/ WriterRecv(i)
                          \/ WriterWrite(i)

FacadeSpec == Init /\ [][FacadeNext]_vars

SetKinds == {"Text", "Number", "Switch", "Blob"}

\* the property p of kind on device d is in the registry
HasProperty(kind, d, p) ==
    d \in DOMAIN devices /\ p \in DOMAIN dm[devices[d].Maps][kind]

PropertyOf(kind, d, p) == dm[devices[d].Maps][kind][p]

\* what a step of a Set call comes to: the error the call returns with it,
\* or nil when the call goes on
SetOutcome == IF upc' = "idle" THEN ret' ELSE ErrNone

\* the property a Set call looks for is in the map of the struct in hand
InHand == uloc.prop \in DOMAIN dm[uloc.device.Maps][uloc.kind]

\* C2: what a Devices snapshot shows stays what it showed when it was taken,
\* whatever is dispatched or set afterwards.
C2_SnapshotStable == {DeviceView(d) : d \in snap} = snapView

\* C7: a property a Set call has marked Busy, and that no inbound element has
\* touched since, shows Busy in the registry once the call has stored its
\* Device; this is so from the step before the new*Vector is put on the
\* outbound queue.
C7_BusyUntilTouched ==
    \A k \in busyMarks :
        (upc = "store" /\ k = PKey(uloc.kind, uloc.dev, uloc.prop))
        \/ (/\ HasProperty(k[1], k[2], k[3])
            /\ PropertyOf(k[1], k[2], k[3]).State = PropertyStateBusy)

\* a Set call has returned nil, its new*Vector is on the outbound queue, and
\* the property, untouched since, shows Busy
C7_Witness ==
    /\ upc = "idle" /\ ret = ErrNone
    /\ \E k \in busyMarks :
          /\ PropertyOf(k[1], k[2], k[3]).State = PropertyStateBusy
          /\ \E i \in Conns :
                /\ outq[i] # <<>>
                /\ Head(outq[i]).type = "newTextVector"
                /\ Head(outq[i]).Device = k[2] /\ Head(outq[i]).Name = k[3]

\* C8 (as the code has it): a Set call checks that the device exists, then the
\* property, then that the property is not read-only, then the value name,
\* and returns the error of the first check that fails: the value name is
\* looked for only in a property that is not read-only.  (A check that reads
\* a map the dispatcher is writing may stop the process instead; such a step
\* returns nothing.)
C8_CheckOrder ==
    [][/\ \A kind \in SetKinds, d \in FacadeDevices, p \in FacadeProperties,
             v \in FacadeValues :
             SetValue(kind, d, p, v) =>
                SetOutcome = IF d \notin DOMAIN devices THEN ErrDeviceNotFound
                             ELSE ErrNone
       /\ (SetFindProp /\ panic' = "") =>
             SetOutcome = IF ~InHand THEN ErrPropertyNotFound
                          ELSE IF dm[uloc.device.Maps][uloc.kind][uloc.prop].Permissions
                                     = PropertyPermissionReadOnly
                              THEN ErrPropertyReadOnly
                          ELSE ErrNone
       /\ (SetFindValue /\ panic' = "") =>
             /\ uloc.p.Permissions # PropertyPermissionReadOnly
             /\ SetOutcome = IF uloc.val \notin DOMAIN vm[uloc.p.Values]
                                 THEN ErrPropertyValueNotFound
                             ELSE ErrNone]_vars

\* C8 (as stated): a Set call checks that the device exists, then the
\* property, then the value name, then that the property is not read-only,
\* and returns the error of the first check that fails.
C8_StatedOrder ==
    [][/\ \A kind \in SetKinds, d \in FacadeDevices, p \in FacadeProperties,
             v \in FacadeValues :
             SetValue(kind, d, p, v) =>
                SetOutcome = IF d \notin DOMAIN devices THEN ErrDeviceNotFound
                             ELSE ErrNone
       /\ (SetFindProp /\ upc' = "idle") =>
             ret' = IF ~InHand THEN ErrPropertyNotFound
                    ELSE IF uloc.val \notin
                               DOMAIN vm[dm[uloc.device.Maps][uloc.kind][uloc.prop].Values]
                        THEN ErrPropertyValueNotFound
                    ELSE ErrPropertyReadOnly]_vars

\* a Set call on a read-only property, for a value name the property does not
\* have, has returned PropertyReadOnly
C8_Witness ==
    /\ upc = "idle" /\ uloc.op = "SetValue" /\ ret = ErrPropertyReadOnly
    /\ HasProperty(uloc.kind, uloc.dev, uloc.prop)
    /\ uloc.val \notin DOMAIN vm[PropertyOf(uloc.kind, uloc.dev, uloc.prop).Values]

\* C9: no step of a Set call up to its last check changes the registry or
\* the outbound queue, and a call that has passed its checks returns no
\* error: a Set call that returns an error has left the registry as it was
\* and has put nothing on the queue.
C9_ErrorChangesNothing ==
    [][/\ ((\E kind \in SetKinds, d \in FacadeDevices, p \in FacadeProperties,
               v \in FacadeValues : SetValue(kind, d, p, v))
           \/ SetFindProp \/ SetFindValue)
          => UNCHANGED <<devices, dm, vm, outq>>
       /\ (uloc.op = "SetValue" /\ upc \in {"set_write", "store", "send", "blocked"}
              /\ upc' = "idle")
          => ret' = ErrNone]_vars

\* a Set call has returned an error for a property that is in the registry
C9_Witness ==
    /\ upc = "idle" /\ uloc.op = "SetValue"
    /\ ret \in {ErrPropertyReadOnly, ErrPropertyValueNotFound}
    /\ HasProperty(uloc.kind, uloc.dev, uloc.prop)
    /\ PropertyOf(uloc.kind, uloc.dev, uloc.prop).State # PropertyStateBusy

\* C10: SetBlobValue on a BLOB property whose defBLOBVector said perm="ro"
\* returns PropertyReadOnly and puts nothing on the outbound queue.
C10_ReadOnlyBlobRefused ==
    [][(/\ SetFindProp
        /\ uloc.kind = "Blob"
        /\ InHand
        /\ PKey("Blob", uloc.dev, uloc.prop) \in DOMAIN declPerm
        /\ declPerm[PKey("Blob", uloc.dev, uloc.prop)] = PropertyPermissionReadOnly)
       => (SetOutcome = ErrPropertyReadOnly /\ outq' = outq)]_vars

-----------------------------------------------------------------------------
(* The handlers: the server sends def*Vector, set*Vector, message and       *)
(* delProperty elements for two devices, and the dispatcher applies them.   *)

\* the elements the server can send: declarations, updates, messages and
\* deletions for the devices d1 and d2; the last one has a state, a
\* permission and a switch value the protocol does not have
RegistryWire ==
    {
      DefTextRW,
      DefTextRO,
      Elem("defTextVector", "d1", "p1", "Idle", "rw", 0, "",
           <<One("v2", <<"z">>, "")>>),
      Elem("defSwitchVector", "d1", "p1", "Ok", "rw", 0, "m1",
           <<One("v1", <<"O", "n">>, ""), One("v2", <<"O", "f", "f">>, "")>>),
      Elem("defNumberVector", "d2", "p1", "Busy", "wo", 10, "",
           <<One("v1", <<"\t", "1", "U+00A0">>, "")>>),
      Elem("defLightVector", "d1", "p1", "Alert", "", 0, "",
           <<One("v1", <<"O", "k">>, "")>>),
      DefBlob,
      Elem("setTextVector", "d1", "p1", "Alert", "", 5, "m2",
           <<One("v1", <<"c", "\n">>, ""), One("v3", <<"x">>, "")>>),
      Elem("setSwitchVector", "d1", "p1", "Busy", "", 7, "",
           <<One("v2", <<"O", "n">>, "")>>),
      Elem("setNumberVector", "d2", "p1", "Ok", "", 0, "m3",
           <<One("v1", <<"2">>, "")>>),
      Elem("setLightVector", "d1", "p1", "Ok", "", 0, "",
           <<One("v1", <<"B", "u", "s", "y">>, "")>>),
      Elem("setTextVector", "d2", "p2", "Ok", "", 3, "m4",
           <<One("v1", <<"q">>, "")>>),
      Elem("message", "d1", "", "", "", 0, "hello",
           <<>>),
      DelAll,
      Elem("delProperty", "d1", "", "", "", 0, "",
           <<>>),
      Elem("delProperty", "d1", "p1", "", "", 0, "",
           <<>>),
      Elem("delProperty", "d2", "p1", "", "", 0, "",
           <<>>),
      Elem("defSwitchVector", "d2", "p2", "Bogus", "rx", 0, "",
           <<One("v1", <<"M", "a", "y", "b", "e">>, "")>>) }

RegistryReader(i) ==
    \/ \E e \in RegistryWire : ReaderToken(i, e)
    \/ ReaderSend(i)

RegistryNext ==
    \/ ConnectOnce
    \/ Connecting
    \/ \E i \in Conns : RegistryReader(i) \/ DispatchRecv(i) \/ Handling(i)

RegistrySpec == Init /\ [][RegistryNext]_vars

\* the element the dispatcher of connection i has in hand
Taken(i) == dloc[i].item

\* the registry as it was when the dispatcher of connection i took the element
Was(i) == dloc[i].was

\* the dispatcher of connection i ends the handler of the element in hand
HandlerEnds(i) == dpc[i] \notin {"off", "recv", "done"} /\ dpc'[i] = "recv"

\* the registry after the step
After == Reg(devices', dm', vm')

\* what a holder of the Device struct d sees through its maps in registry R
ViewIn(R, d) ==
    [Name |-> d.Name, Messages |-> d.Messages,
     Props |-> [k \in Kinds |->
                  [n \in DOMAIN R.dm[d.Maps][k] |->
                     [State |-> R.dm[d.Maps][k][n].State,
                      Permissions |-> R.dm[d.Maps][k][n].Permissions,
                      Timeout |-> R.dm[d.Maps][k][n].Timeout,
                      Messages |-> R.dm[d.Maps][k][n].Messages,
                      Values |-> R.vm[R.dm[d.Maps][k][n].Values]]]]]

\* the property after the step
PropertyAfter(kind, d, p) == dm'[devices'[d].Maps][kind][p]

\* C11: when the handler of a def*Vector ends, the property it has stored has the element's state,
\* permission and timeout, for the kinds that have them (Text, Number,
\* Switch, BLOB).
C11_DefKeepsAttributes ==
    [][\A i \in Conns :
          HandlerEnds(i) =>
          \A it \in {Taken(i)} :
             (IsDef(it.type) /\ KindOf(it.type) # "Light")
             => /\ PropertyAfter(KindOf(it.type), it.Device, it.Name).State = it.State
                /\ PropertyAfter(KindOf(it.type), it.Device, it.Name).Permissions = it.Perm
                /\ PropertyAfter(KindOf(it.type), it.Device, it.Name).Timeout = it.Timeout]_vars

\* the names of the inner values of an element
Named(it) == {it.Items[j].Name : j \in DOMAIN it.Items}

\* the last inner value of an element with the given name
LastNamed(it, n) ==
    it.Items[CHOOSE j \in DOMAIN it.Items :
                /\ it.Items[j].Name = n
                /\ \A j2 \in DOMAIN it.Items : it.Items[j2].Name = n => j2 <= j]

\* the value names an element declares, each with the trimmed character
\* data of its last declaration; a defBLOB declares no data
DeclaredValues(it) ==
    [n \in Named(it) |->
        [Value |-> IF it.type = "defBLOBVector" THEN ""
                   ELSE TrimSpace(LastNamed(it, n).Value),
         Size |-> 0]]

\* the devices other than d are in the registry after the step as they were
\* in registry W, and show the same
OthersUnchanged(W, d) ==
    /\ DOMAIN devices' \ {d} = DOMAIN W.devices \ {d}
    /\ \A n \in DOMAIN W.devices \ {d} :
          ViewIn(After, devices'[n]) = ViewIn(W, W.devices[n])

\* the kind-maps of device d in registry W, empty if d was not there
MapsBefore(W, d) ==
    IF d \in DOMAIN W.devices THEN W.dm[W.devices[d].Maps] ELSE NewMaps

\* C12: when the handler of a def*Vector for device D and property P ends, D
\* is in the registry, P is in the kind-map of the element's kind with
\* exactly the declared value names and their (trimmed) values, the rest of
\* that kind-map and the other four kind-maps of D are as they were when the
\* element was taken, and so is every other device.
C12_DefStoresOneProperty ==
    [][\A i \in Conns :
          HandlerEnds(i) =>
          \A it \in {Taken(i)} :
             IsDef(it.type) =>
             \A kind \in {KindOf(it.type)}, W \in {Was(i)} :
                /\ it.Device \in DOMAIN devices'
                /\ it.Name \in DOMAIN dm'[devices'[it.Device].Maps][kind]
                /\ vm'[PropertyAfter(kind, it.Device, it.Name).Values] = DeclaredValues(it)
                /\ \A k \in Kinds \ {kind} :
                      dm'[devices'[it.Device].Maps][k] = MapsBefore(W, it.Device)[k]
                /\ \A p \in DOMAIN dm'[devices'[it.Device].Maps][kind] \ {it.Name} :
                      /\ p \in DOMAIN MapsBefore(W, it.Device)[kind]
                      /\ PropertyAfter(kind, it.Device, p) =
                            MapsBefore(W, it.Device)[kind][p]
                      /\ vm'[PropertyAfter(kind, it.Device, p).Values] =
                            W.vm[MapsBefore(W, it.Device)[kind][p].Values]
                /\ DOMAIN MapsBefore(W, it.Device)[kind] \subseteq
                      DOMAIN dm'[devices'[it.Device].Maps][kind]
                /\ OthersUnchanged(W, it.Device)]_vars

\* two def*Vector of different kinds for d1/p1, and one for d2, have been
\* dispatched
C12_Witness ==
    /\ DOMAIN devices = {"d1", "d2"}
    /\ "p1" \in DOMAIN dm[devices["d1"].Maps]["Text"]
    /\ "p1" \in DOMAIN dm[devices["d1"].Maps]["Switch"]
    /\ DOMAIN vm[dm[devices["d1"].Maps]["Switch"]["p1"].Values] = {"v1", "v2"}

\* the element's property is in the matching kind-map of its device in
\* registry W
Known(W, it) ==
    /\ it.Device \in DOMAIN W.devices
    /\ it.Name \in DOMAIN W.dm[W.devices[it.Device].Maps][KindOf(it.type)]

\* C13: the handler of a set*Vector for a property known when the element
\* was taken has, when it ends, given the property the
\* element's state and (for the kinds that have one) timeout, replaces the
\* value of every inner value whose name the property has by the trimmed
\* character data, keeps the other values, creates no entry for a name the
\* property does not have, and appends the element's message, if it carries
\* one, after the messages the property had.
C13_SetUpdatesKnownProperty ==
    [][\A i \in Conns :
          HandlerEnds(i) =>
          \A it \in {Taken(i)} :
             \A W \in {Was(i)} :
             (IsSet(it.type) /\ Known(W, it)) =>
             \A kind \in {KindOf(it.type)} :
             \A old \in {W.dm[W.devices[it.Device].Maps][kind][it.Name]} :
                /\ PropertyAfter(kind, it.Device, it.Name).State = it.State
                /\ kind # "Light" =>
                      PropertyAfter(kind, it.Device, it.Name).Timeout = it.Timeout
                /\ PropertyAfter(kind, it.Device, it.Name).Permissions = old.Permissions
                /\ PropertyAfter(kind, it.Device, it.Name).Messages =
                      IF it.Message = "" THEN old.Messages
                      ELSE old.Messages \o <<it.Message>>
                /\ vm'[PropertyAfter(kind, it.Device, it.Name).Values] =
                      [n \in DOMAIN W.vm[old.Values] |->
                          IF n \in Named(it)
                              THEN [W.vm[old.Values][n] EXCEPT
                                       !.Value = TrimSpace(LastNamed(it, n).Value)]
                              ELSE W.vm[old.Values][n]]]_vars

\* the setTextVector for d1/p1 with state Alert, timeout 5, message m2, a new
\* value for v1 and a value for the unknown v3 has been dispatched
C13_Witness ==
    /\ \A i \in Conns : dpc[i] \in {"off", "recv"}
    /\ "d1" \in DOMAIN devices
    /\ "p1" \in DOMAIN dm[devices["d1"].Maps]["Text"]
    /\ dm[devices["d1"].Maps]["Text"]["p1"].State = "Alert"
    /\ dm[devices["d1"].Maps]["Text"]["p1"].Timeout = 5
    /\ dm[devices["d1"].Maps]["Text"]["p1"].Messages = <<"m2">>
    /\ DOMAIN vm[dm[devices["d1"].Maps]["Text"]["p1"].Values] = {"v1"}
    /\ vm[dm[devices["d1"].Maps]["Text"]["p1"].Values]["v1"].Value = <<"c">>

\* the element a dispatcher took last
LastApplied(i) == applied[i][Len(applied[i])]

\* C14: the handler of a set*Vector whose device was not in the registry
\* when the element was taken, or whose property was not in the matching
\* kind-map of the device, ends with the registry as it was: the devices,
\* their property maps and the value maps are what they were.
C14_SetUnknownChangesNothing ==
    [][\A i \in Conns :
          HandlerEnds(i) =>
          \A it \in {Taken(i)} :
             (IsSet(it.type) /\ ~Known(Was(i), it)) => After = Was(i)]_vars

\* the element dispatched last was a set*Vector for a device that is in the
\* registry and a property that is not in the kind-map of the element's kind
C14_Witness ==
    \E i \in Conns :
       /\ applied[i] # <<>>
       /\ IsSet(LastApplied(i).type)
       /\ LastApplied(i).Device \in DOMAIN devices
       /\ ~Known(R0, LastApplied(i))
       /\ inq[i] = <<>> /\ dpc[i] = "recv"

\* C15: when its handler ends, a delProperty with no device has emptied the
\* registry; with a device D and no name it has removed D, if present, and
\* nothing else; with a device D and a name P it has left P in none of the
\* five kind-maps of D, kept every other property of D with its values, and
\* kept every other device as it was when the element was taken.
C15_DelRemovesItsTarget ==
    [][\A i \in Conns :
          HandlerEnds(i) =>
          \A it \in {Taken(i)} :
             \A W \in {Was(i)} :
             it.type = "delProperty" =>
                IF it.Device = "" THEN devices' = EmptyMap
                ELSE IF it.Name = ""
                   THEN /\ it.Device \notin DOMAIN devices'
                        /\ OthersUnchanged(W, it.Device)
                        /\ it.Device \notin DOMAIN W.devices => devices' = W.devices
                   ELSE /\ OthersUnchanged(W, it.Device)
                        /\ it.Device \in DOMAIN devices' =>
                              \A k \in Kinds :
                                 /\ it.Name \notin DOMAIN dm'[devices'[it.Device].Maps][k]
                                 /\ dm'[devices'[it.Device].Maps][k] =
                                       MapDel(MapsBefore(W, it.Device)[k], it.Name)
                        /\ it.Device \in DOMAIN W.devices =>
                              /\ it.Device \in DOMAIN devices'
                              /\ devices'[it.Device].Messages =
                                    W.devices[it.Device].Messages
                        /\ vm' = W.vm]_vars

\* the element dispatched last was a delProperty with a device and a name;
\* the device is in the registry with another property, and the other device
\* is there too
C15_Witness ==
    \E i \in Conns :
       /\ applied[i] # <<>>
       /\ LastApplied(i).type = "delProperty"
       /\ LastApplied(i).Device = "d1" /\ LastApplied(i).Name = "p1"
       /\ inq[i] = <<>> /\ dpc[i] = "recv"
       /\ "d1" \in DOMAIN devices
       /\ \E k \in Kinds : dm[devices["d1"].Maps][k] # EmptyMap

\* C16: a device name enters the registry only when a def*Vector naming it is
\* dispatched: the handler of any other element (set*Vector, message,
\* delProperty) ends with no device that was not there when the element was
\* taken.
C16_OnlyDefAddsDevice ==
    [][\A i \in Conns :
          HandlerEnds(i) =>
          \A it \in {Taken(i)} :
             ~IsDef(it.type) => DOMAIN devices' \subseteq DOMAIN Was(i).devices]_vars

\* the element carries a state, a permission or a switch or light value that
\* is none of the protocol's literals (an attribute left out is the empty
\* string and carries nothing)
UnknownEnum(it) ==
    \/ it.State \notin {"", "Idle", "Ok", "Busy", "Alert"}
    \/ it.Perm \notin {"", "ro", "wo", "rw"}
    \/ /\ it.type \in {"defSwitchVector", "setSwitchVector"}
       /\ \E j \in DOMAIN it.Items :
             TrimSpace(it.Items[j].Value) \notin {<<"O", "n">>, <<"O", "f", "f">>}
    \/ /\ it.type \in {"defLightVector", "setLightVector"}
       /\ \E j \in DOMAIN it.Items :
             TrimSpace(it.Items[j].Value) \notin
                {<<"I", "d", "l", "e">>, <<"O", "k">>, <<"B", "u", "s", "y">>,
                 <<"A", "l", "e", "r", "t">>}

\* C22: an element with a state, permission or switch value outside the
\* protocol's literal sets is not put on the inbound queue by the reader, and
\* the handler of such an element ends with the registry as it was when the
\* element was taken.
C22_UnknownEnumRejected ==
    /\ [](\A i \in Conns : \A n \in DOMAIN inq[i] : ~UnknownEnum(inq[i][n]))
    /\ [][\A i \in Conns :
             (HandlerEnds(i) /\ UnknownEnum(Taken(i))) => After = Was(i)]_vars

-----------------------------------------------------------------------------
(* Order: a client whose channels hold one element more, so that two        *)
(* elements, or two commands, wait in a buffer at once.  The application    *)
(* connects once and the connection stays open; the writer runs whenever it *)
(* can.                                                                     *)

OrderReader(i) ==
    \/ \E e \in {DefTextRW, SetTextOk, DelAll} : ReaderToken(i, e)
    \/ ReaderSend(i)

OrderNext ==
    \/ ConnectOnce
    \/ Connecting
    \/ \E d \in {"", "d1"} : GetProperties(d, "")
    \/ Send
    \/ \E i \in Conns :
          \/ OrderReader(i) \/ FacadeDispatcher(i) \/ WriterRecv(i) \/ WriterWrite(i)
          \/ DispatchCleared(i)
          \/ \E d \in DeviceNames : DispatchClearKey(i, d)

OrderSpec ==
    /\ NewINDIClient(BufferSize + 1)
    /\ [][OrderNext]_vars
    /\ \A i \in Conns : WF_vars(WriterRecv(i)) /\ WF_vars(WriterWrite(i))

\* the element a reader has decoded and not yet put on the channel
Pending(i) == IF rpc[i] = "send" THEN <<ritem[i]>> ELSE <<>>

\* C18: the elements a dispatcher has taken are, in order, the first ones
\* its reader decoded, and the rest wait, in order, in the channel and in the
\* reader's hand: none is taken twice, skipped or overtaken.  Each receive of
\* a dispatcher takes the oldest waiting element, the element a dispatcher
\* has in hand in a handler is the one it took last, and the registry changes
\* only by a step of the handler of that element.
C18_InboundInOrder ==
    /\ [](\A i \in Conns :
             /\ readLog[i] = applied[i] \o inq[i] \o Pending(i)
             /\ dpc[i] \notin {"off", "recv", "done"} =>
                   (applied[i] # <<>> /\ Taken(i) = LastApplied(i)))
    /\ [][/\ \A i \in Conns :
               DispatchRecv(i) =>
                  /\ dloc'[i].item = readLog[i][Len(applied[i]) + 1]
                  /\ Len(applied'[i]) = Len(applied[i]) + 1
                  /\ registry' = registry
          /\ registry' # registry =>
                \E i \in Conns : dpc[i] \notin {"off", "recv", "done"}]_vars

\* the declaration of d1/p1 has been applied while its update and a
\* delProperty wait behind it in the channel
C18_Witness ==
    \E i \in Conns :
       /\ applied[i] = <<DefTextRW>> /\ dpc[i] = "recv"
       /\ inq[i] = <<SetTextOk, DelAll>>
       /\ "d1" \in DOMAIN devices

\* the command a writer has received and not yet written
InHandOf(i) == IF wpc[i] = "write" THEN <<wloc[i].item>> ELSE <<>>

\* C19: on each connection the commands written to the socket are, in order,
\* the first ones put on the write channel, and the rest wait, in order, in
\* the writer's hand and in the channel: none is written twice or overtaken;
\* and time and again all the commands put on the channel so far have been
\* written, so that each one is written in the end.
C19_OutboundInOrder ==
    /\ [](\A i \in Conns : queued[i] = sent[i] \o InHandOf(i) \o outq[i])
    /\ []<>(\A i \in Conns : sent[i] = queued[i])

\* two different commands have been put on a connection's channel and both
\* have been written, the one for d1 first
C19_Witness ==
    \E i \in Conns :
       /\ Len(sent[i]) = 2
       /\ sent[i][1] # sent[i][2]
       /\ sent[i][1].Device = "d1"
       /\ sent[i] = queued[i]

-----------------------------------------------------------------------------
(* Subscriptions: two goroutines subscribe to and unsubscribe from the BLOB *)
(* value d1/p1/v1 side by side, once the server has defined it.             *)

Subscriber(c) ==
    \/ Subscribing(c)
    \/ \E id \in 1..MaxStreams : CloseBlobStreamLoad(c, "d1", "p1", "v1", id)
    \/ CloseBlobStreamFind(c)
    \/ CloseBlobStreamClose(c)
    \/ CloseBlobStreamDelete(c)
    \/ CloseBlobStreamStore(c)

StreamNext ==
    \/ ConnectOnce
    \/ Connecting
    \/ \E i \in Conns :
          \/ \E e \in {DefBlob, Elem("delProperty", "d1", "", "", "", 0, "", <<>>)} :
                ReaderToken(i, e)
          \/ ReaderSend(i) \/ DispatchRecv(i)
          \/ DispatchLoad(i) \/ DispatchDefWrite(i) \/ DispatchStore(i)
    \/ \E c \in Subscribers : Subscriber(c)

StreamSpec == Init /\ [][StreamNext]_vars

\* the return of a CloseBlobStream call that got past its lookups
CloseReturns(c) ==
    /\ spc[c].pc \in {"find", "restore"}
    /\ spc'[c].pc = "idle"

\* C20: an id GetBlobStream has returned is in the writers map stored under
\* its key for as long as CloseBlobStream has not been called with it; and
\* when CloseBlobStream returns for a returned id, the id is not in that map
\* and its pipe writer is closed.
C20_SubscriptionsStay ==
    /\ [](\A id \in DOMAIN subs.key :
             id \notin subs.closed => id \in Writers(subs.key[id]))
    /\ [][\A c \in Subscribers :
             (CloseReturns(c) /\ spc[c].id \in DOMAIN subs.key) =>
                /\ spc[c].id \notin Writers(spc[c].key)'
                /\ pipes'[spc[c].id].wclosed]_vars

-----------------------------------------------------------------------------
(* Abandoned streams: a subscriber closes the reader GetBlobStream gave it  *)
(* and never calls CloseBlobStream, so its pipe stays in the writers map.   *)

\* the server defines d1/p1/v1 and sets it with an empty payload or with one
\* of two rounds of the copy, or sends three entries of one byte in one
\* element: one for a value the property does not have and two for v1 with
\* different formats
AbandonNext ==
    \/ ConnectOnce
    \/ Connecting
    \/ GetBlobStream("d1", "p1", "v1")
    \/ \E w \in 1..MaxStreams : CloseReader(w)
    \/ \E w \in 1..MaxStreams, n \in ReadSizes : ReadBlobStream(w, n)
    \/ \E i \in Conns :
          \/ \E e \in {DefBlob, SetBlobLong,
                       Elem("setBLOBVector", "d1", "p1", "Ok", "", 0, "",
                            <<One("v1", <<>>, ".fits")>>),
                       Elem("setBLOBVector", "d1", "p1", "Alert", "", 0, "m1",
                            <<One("v2", PayloadOne, ".bin"),
                              One("v1", PayloadOne, ".fits"),
                              One("v1", PayloadOne, ".bin")>>)} : ReaderToken(i, e)
          \/ ReaderSend(i)
          \/ BlobDispatcher(i)
          \/ BlobRange(i)
          \/ \E w \in 1..MaxStreams : BlobPipeError(i, w)

AbandonSpec == Init /\ [][AbandonNext]_vars

\* C21: while a dispatcher is at an entry for a key under which a pipe was
\* registered, with its reader closed and CloseBlobStream not called for
\* it, when the entry was taken up, the copy of the entry does not end
\* without error and no BlobValue is changed.
C21_ClosedReaderStopsEveryEntry ==
    [][\A i \in Conns :
          (dloc[i].abandoned # {} /\ dpc[i] \in {"writers", "range", "visit", "copy", "copied"}) =>
             (dpc'[i] # "copied" /\ vm' = vm)]_vars

-----------------------------------------------------------------------------
(* Lifecycle: the application only connects, with a dialer that may fail,   *)
(* and disconnects; the server sends and may close.                         *)

LifeNext ==
    \/ \E ok \in BOOLEAN : Connect(ok)
    \/ Connecting
    \/ ConnectClearing
    \/ Disconnect
    \/ UserDisconnect
    \/ \E i \in Conns : Reader(i) \/ Dispatcher(i) \/ WriterDone(i) \/ Stream(i)

LifeSpec == Init /\ [][LifeNext]_vars

\* C23: a Connect whose dialer fails returns the dialer's error and changes
\* nothing else: the registry, the client's fields, the queues, the workers
\* and the streams are what they were, no connection is counted, and a client
\* that was not connected is not connected afterwards.
C23_DialErrorChangesNothing ==
    [][Connect(FALSE) =>
          /\ ret' = "dial error" /\ upc' = "idle"
          /\ UNCHANGED <<registry, clientFields, channels, workers, socket, streams, nconn>>
          /\ ~IsConnected => ~IsConnected']_vars

\* the dialer failed for a client that had never connected: the error is
\* returned, no worker was started and the client is not connected
C23_Witness ==
    /\ ret = "dial error" /\ upc = "idle" /\ ncalls > 0
    /\ nconn = 0 /\ ~IsConnected
    /\ \A i \in Conns : rpc[i] = "off" /\ dpc[i] = "off" /\ wpc[i] = "off"

\* C24: a step of a Disconnect call made while the client holds no stream
\* closes no stream and no queue, touches no worker and no field of the
\* client, and the call returns success from its test of c.conn; all it does
\* is delete devices from the registry, key by key.  A Disconnect after a
\* Disconnect is such a call, so it adds nothing to the first.
C24_DisconnectWhenIdle ==
    [][(UserDisconnect /\ conn = 0 /\ upc \in {"disc", "disc_range", "disc_check"}) =>
          /\ UNCHANGED <<clientFields, channels, socket, streams, workers, panic>>
          /\ upc \in {"disc", "disc_range"} =>
                /\ upc' \in {"disc_range", "disc_check"}
                /\ DOMAIN devices' \subseteq DOMAIN devices
                /\ \A d \in DOMAIN devices' : devices'[d] = devices[d]
          /\ upc = "disc_check" =>
                (upc' = "idle" /\ ret' = ErrNone /\ UNCHANGED registry)]_vars

\* three calls on a client that never connected, the last of them a
\* Disconnect that has returned success; nothing is closed
C24_Witness ==
    /\ nconn = 0 /\ ncalls = 3 /\ upc = "idle" /\ ret = ErrNone
    /\ connClosed = {} /\ inClosed = {} /\ outClosed = {}
    /\ devices = EmptyMap

\* no Disconnect is under way, on the caller's goroutine or on a reader's
NoDisconnectRunning ==
    /\ upc \notin {"disc", "disc_range", "disc_check", "disc_close", "disc_nil", "disc_read", "disc_write"}
    /\ \A i \in Conns :
          rpc[i] \notin {"disc", "disc_range", "disc_check", "disc_close", "disc_nil", "disc_read",
                         "disc_write"}

\* where the caller is inside Connect, after the dial
ConnectPcs == {"conn_clear", "conn_range", "conn_set", "conn_read", "conn_write", "conn_startr",
               "conn_startw"}

\* C25: whenever no Disconnect and no Connect is under way, IsConnected is
\* true exactly when the stream of the last successful Connect has not been
\* closed by a Disconnect.
C25_IsConnectedIffLiveStream ==
    (panic = "" /\ NoDisconnectRunning /\ upc \notin ConnectPcs) =>
       (IsConnected <=> (nconn > 0 /\ nconn \notin connClosed))

-----------------------------------------------------------------------------
(* Calls: the application asks for properties, enables BLOBs and fetches a  *)
(* stored BLOB, with names the registry has and names it has not, while the *)
(* server defines the BLOB d1/p1/v1 and sends a payload for it.             *)

\* a BLOB whose format names a file in a directory: the sink file of d1, p1, v1
\* is then d1_p1_v1/f.fit
SetBlobDir ==
    Elem("setBLOBVector", "d1", "p1", "Ok", "", 0, "", <<One("v1", PayloadOne, "/f.fit")>>)

CallNext ==
    \/ ConnectOnce
    \/ Connecting
    \/ \E d \in {"", "d1"}, p \in {"", "p1"} : GetProperties(d, p)
    \/ \E d \in {"d1", "d2"}, p \in {"", "p1"}, val \in {"Never", "Also", "Only", "Sometimes"} :
          EnableBlob(d, p, val)
    \/ \E d \in {"d1", "d2"}, p \in {"p1", "p2"}, v \in {"v1", "v2"}, fsok \in BOOLEAN :
          GetBlob(d, p, v, fsok)
    \/ Send
    \/ Wake
    \/ \E i \in Conns :
          \/ \E e \in {DefBlob, SetBlobDir} : ReaderToken(i, e)
          \/ ReaderSend(i)
          \/ BlobDispatcher(i)
          \/ WriterRecv(i)
          \/ WriterWrite(i)

CallSpec == Init /\ [][CallNext]_vars

\* the call made by this step returns err at once: the caller is idle again,
\* and nothing was put on an outbound queue or given to a writer
ReturnsAtOnce(err) ==
    /\ ret' = err /\ upc' = "idle"
    /\ UNCHANGED <<outq, queued, sent>>

\* C26: GetProperties with a property name and no device name returns
\* PropertyWithoutDevice and puts no command on the outbound queue.
C26_PropertyWithoutDevice ==
    [][\A d \in {"", "d1"}, p \in {"", "p1"} :
          (GetProperties(d, p) /\ p # "" /\ d = "") =>
             ReturnsAtOnce(ErrPropertyWithoutDevice)]_vars

\* a connected client whose call has returned PropertyWithoutDevice; nothing
\* was ever queued
C26_Witness ==
    /\ conn # 0 /\ upc = "idle" /\ ret = ErrPropertyWithoutDevice
    /\ queued[conn] = <<>> /\ outq[conn] = <<>>

\* C27: EnableBlob for a device the registry does not have, with any property
\* name and any of the modes Never, Also, Only, returns DeviceNotFound and
\* puts no command on the outbound queue.
C27_EnableBlobUnknownDevice ==
    [][\A d \in {"d1", "d2"}, p \in {"", "p1"}, val \in {"Never", "Also", "Only"} :
          (EnableBlob(d, p, val) /\ d \notin DOMAIN devices) =>
             ReturnsAtOnce(ErrDeviceNotFound)]_vars

\* the registry has d1, and EnableBlob for d2 with mode Only has returned
\* DeviceNotFound; nothing was ever queued
C27_Witness ==
    /\ conn # 0 /\ "d1" \in DOMAIN devices
    /\ upc = "idle" /\ ret = ErrDeviceNotFound
    /\ uloc.op = "EnableBlob" /\ uloc.dev = "d2" /\ uloc.val = "Only"
    /\ queued[conn] = <<>> /\ outq[conn] = <<>>

\* C28: EnableBlob with a mode that is none of Never, Also, Only returns
\* InvalidBlobEnable, whether or not the registry has the device, and puts no
\* command on the outbound queue.
C28_EnableBlobInvalidMode ==
    [][\A d \in {"d1", "d2"}, p \in {"", "p1"},
          val \in {"Never", "Also", "Only", "Sometimes"} :
          (EnableBlob(d, p, val) /\ val \notin {"Never", "Also", "Only"}) =>
             ReturnsAtOnce(ErrInvalidBlobEnable)]_vars

\* EnableBlob with the mode Sometimes for d2, which the registry does not
\* have, has returned InvalidBlobEnable; nothing was ever queued
C28_Witness ==
    /\ conn # 0 /\ "d2" \notin DOMAIN devices
    /\ upc = "idle" /\ ret = ErrInvalidBlobEnable
    /\ uloc.op = "EnableBlob" /\ uloc.dev = "d2" /\ uloc.val = "Sometimes"
    /\ queued[conn] = <<>> /\ outq[conn] = <<>>

\* the error GetBlob(d, p, v) is to return when Open succeeds or not (fsok)
GetBlobError(d, p, v, fsok) ==
    IF d \notin DOMAIN devices THEN ErrDeviceNotFound
    ELSE IF ~HasProperty("Blob", d, p) THEN ErrPropertyNotFound
    ELSE IF v \notin DOMAIN vm[PropertyOf("Blob", d, p).Values]
        THEN ErrPropertyValueNotFound
    ELSE IF ~fsok THEN "open error"
    ELSE ErrNone

\* C29: a GetBlob that returns, returns DeviceNotFound, else PropertyNotFound,
\* else PropertyValueNotFound, else the error of Open, with a nil reader, an
\* empty name and size 0; when Open succeeds it returns a reader over the
\* recorded path, the base name of that path and the recorded size.
C29_GetBlobResults ==
    [][\A d \in {"d1", "d2"}, p \in {"p1", "p2"}, v \in {"v1", "v2"}, fsok \in BOOLEAN :
          (GetBlob(d, p, v, fsok) /\ panic' = "") =>
             \A err \in {GetBlobError(d, p, v, fsok)} :
                /\ ReturnsAtOnce(err)
                /\ err # ErrNone =>
                      (uloc'.rdr = <<>> /\ uloc'.fileName = "" /\ uloc'.length = 0)
                /\ err = ErrNone =>
                      \A rec \in {vm[PropertyOf("Blob", d, p).Values][v]} :
                         /\ uloc'.rdr = <<rec.Value>>
                         /\ uloc'.fileName = Base(rec.Value)
                         /\ uloc'.length = rec.Size]_vars

\* the payload of one byte was written to d1_p1_v1/f.fit, and GetBlob for
\* d1/p1/v1 has returned a reader over that file, the name f.fit and the
\* size 1
C29_Witness ==
    /\ upc = "idle" /\ ret = ErrNone /\ uloc.op = "GetBlob"
    /\ uloc.rdr = <<"d1_p1_v1/f.fit">> /\ uloc.fileName = "f.fit"
    /\ uloc.length = 1
    /\ "d1_p1_v1/f.fit" \in DOMAIN files /\ files["d1_p1_v1/f.fit"] = <<49>>

-----------------------------------------------------------------------------
(* Groups: the server defines one property of each kind on d1, with group   *)
(* labels that repeat, that differ in case, and with one label left out;    *)
(* the application asks the Device for its groups.                          *)

\* the definitions the dispatcher of the connection has written into the
\* maps of their Device so far: all it has taken, less the one it has in hand
\* and has not written yet
WritesDone == Len(applied[1]) - (IF dpc[1] \in {"load", "write"} THEN 1 ELSE 0)

\* d.Groups() on a Device struct d the application holds, one with the given
\* name that the last Devices call returned: temp := map[string]bool{}.
\* from is history: how many definitions had been written when Groups was
\* called
DeviceGroups(name) ==
    /\ panic = "" /\ upc = "idle" /\ ncalls < MaxCalls
    /\ ncalls' = ncalls + 1
    /\ upc' = "groups"
    /\ \E d \in snap :
          /\ d.Name = name
          /\ uloc' = [NoLoc EXCEPT !.op = "Groups", !.dev = name, !.device = d, !.j = 1,
                                   !.from = WritesDone]
    /\ UNCHANGED <<registry, clientFields, streams, channels, socket, ret, workers,
                   panic, snap, nconn, nread, history>>

\* the map Groups is ranging over
GroupsMap == dm[uloc.device.Maps][GroupsOrder[uloc.j]]

\* the locals after the range over one of the five maps: the next map is to
\* be ranged over, or, after the fifth, the keys of temp are appended to a
\* slice, sort.Strings sorts it, and Groups returns it
GroupsRanged ==
    IF uloc.j < Len(GroupsOrder)
        THEN /\ uloc' = [uloc EXCEPT !.j = @ + 1, !.todo = {}, !.seen = {}]
             /\ upc' = "groups"
        ELSE /\ uloc' = [uloc EXCEPT !.j = 0, !.temp = {}, !.todo = {}, !.seen = {},
                                     !.groups = SortStrings(uloc.temp)]
             /\ upc' = "idle"

\* for _, v := range d.<Kind>Properties is entered.  The range is no snapshot
\* of the map, which the dispatcher writes in place meanwhile: it yields the
\* entries one by one, none twice; an entry that is in the map from the
\* entering on is yielded, and one put in meanwhile is yielded or passed
\* over.  todo has the names whose entries have been in the map since the
\* entering (a delete takes its name out, RangedAfterDelete).  Over an empty
\* map the range ends at once
GroupsRange ==
    /\ panic = "" /\ upc = "groups"
    /\ \/ /\ IF GroupsMap = EmptyMap
                THEN GroupsRanged
                ELSE /\ uloc' = [uloc EXCEPT !.todo = DOMAIN GroupsMap, !.seen = {}]
                     /\ upc' = "groups_visit"
          /\ UNCHANGED <<registry, clientFields, streams, channels, socket, ret, workers,
                         panic, snap, counters, history>>
       \/ MapRace(<<"user">>, UserAccesses)

\* the range yields the entry n, which is in the map now and was not yielded
\* before (an entry deleted and put in again is another entry):
\* temp[v.Group] = true
GroupsVisit(n) ==
    /\ panic = "" /\ upc = "groups_visit"
    /\ \/ /\ n \in DOMAIN GroupsMap /\ n \notin uloc.seen
          /\ uloc' = [uloc EXCEPT !.temp = @ \cup {GroupsMap[n].Group},
                                  !.seen = @ \cup {n}]
          /\ UNCHANGED <<registry, clientFields, streams, channels, socket, upc, ret,
                         workers, panic, snap, counters, history>>
       \/ MapRace(<<"user">>, UserAccesses)

\* the range ends: every entry that has been in the map since the entering
\* has been yielded
GroupsRangeEnd ==
    /\ panic = "" /\ upc = "groups_visit"
    /\ \/ /\ (uloc.todo \cap DOMAIN GroupsMap) \subseteq uloc.seen
          /\ GroupsRanged
          /\ UNCHANGED <<registry, clientFields, streams, channels, socket, ret, workers,
                         panic, snap, counters, history>>
       \/ MapRace(<<"user">>, UserAccesses)

\* the names of the properties the server of this specification defines
GroupsProps == {"p1", "p2"}

GroupsNext ==
    \/ ConnectOnce
    \/ Connecting
    \/ Devices
    \/ DevicesVisit("d1")
    \/ DevicesReturn
    \/ DeviceGroups("d1")
    \/ GroupsRange
    \/ \E n \in GroupsProps : GroupsVisit(n)
    \/ GroupsRangeEnd
    \/ \E i \in Conns :
          \/ \E e \in {[DefTextRW EXCEPT !.Group = <<"B">>],
                       [Elem("defSwitchVector", "d1", "p1", "Ok", "rw", 0, "",
                             <<One("v1", <<"O", "n">>, "")>>) EXCEPT !.Group = <<"a">>],
                       [Elem("defNumberVector", "d1", "p1", "Ok", "rw", 0, "",
                             <<One("v1", <<"1">>, "")>>) EXCEPT !.Group = <<"B">>],
                       [Elem("defLightVector", "d1", "p1", "Ok", "", 0, "",
                             <<One("v1", <<"O", "k">>, "")>>)
                           EXCEPT !.Group = <<"A", " ", "b">>],
                       [Elem("defTextVector", "d1", "p2", "Ok", "rw", 0, "",
                             <<One("v1", <<"x">>, "")>>) EXCEPT !.Group = <<"B", "a">>],
                       DefBlob} : ReaderToken(i, e)
          \/ ReaderSend(i)
          \/ DispatchRecv(i)
          \/ DispatchLoad(i) \/ DispatchDefWrite(i) \/ DispatchStore(i)

GroupsSpec == Init /\ [][GroupsNext]_vars

\* the group labels in the five maps of the Device struct Groups is called on
LabelsOf(d) == UNION {{dm[d.Maps][k][n].Group : n \in DOMAIN dm[d.Maps][k]} : k \in Kinds}

\* the group labels in the maps of d1 once the first n definitions the
\* dispatcher took were written: each definition of this wire writes one
\* property of d1 that no other writes, and none is taken out
LabelsAfter(n) == {applied[1][m].Group : m \in 1..n}

\* the Device structs the application holds show the labels written so far
LabelsWritten == \A d \in snap : LabelsOf(d) = LabelsAfter(WritesDone)

\* C30: when Groups returns, what it returns holds exactly the group labels
\* of the five maps of its Device, each once, every label before the labels
\* that are greater byte by byte: the labels the maps had at some instant
\* between the call and the return.
C30_GroupsSortedUnion ==
    [][(upc \in {"groups", "groups_visit"} /\ upc' = "idle" /\ panic' = "") =>
          \E n \in uloc.from..WritesDone :
             uloc'.groups = SortStrings(LabelsAfter(n))]_vars

\* C31: the socket reader never sends on a closed inbound queue, and no
\* Disconnect closes a queue that is closed already.
C31_NoSendOrCloseOnClosed ==
    panic \notin {"reader: send on closed channel", "close of closed channel"}

-----------------------------------------------------------------------------
(* Set calls beside the dispatcher: the application sets the text d1/p1/v1  *)
(* while the server updates the property with a message or deletes d1.      *)

RaceNext ==
    \/ ConnectOnce
    \/ Connecting
    \/ SetTextValue("d1", "p1", "v1")
    \/ Setting
    \/ Send
    \/ Wake
    \/ \E i \in Conns :
          \/ \E e \in {DefTextRW,
                       Elem("setTextVector", "d1", "p1", "Ok", "", 0, "m1",
                            <<One("v1", <<"b">>, "")>>),
                       Elem("delProperty", "d1", "", "", "", 0, "", <<>>)} :
                ReaderToken(i, e)
          \/ ReaderSend(i)
          \/ FacadeDispatcher(i)
          \/ WriterRecv(i)
          \/ WriterWrite(i)

RaceSpec == Init /\ [][RaceNext]_vars

\* a delProperty for device d, or for all devices, has been dispatched
Deleted(d) ==
    \E i \in Conns : \E n \in DOMAIN applied[i] :
       applied[i][n].type = "delProperty" /\ applied[i][n].Device \in {"", d}

\* this step is a step of the handler of a def*Vector for device d
Defines(d) ==
    \E i \in Conns :
       /\ dpc[i] \notin {"off", "recv", "done"}
       /\ IsDef(Taken(i).type) /\ Taken(i).Device = d
       /\ <<dpc[i], dloc[i]>>' # <<dpc[i], dloc[i]>>

\* C32: after a deletion of d1 has been dispatched, d1 comes back into the
\* registry only by a step of the handler of a def*Vector for d1.
C32_DeletedStaysAbsent ==
    [][(Deleted("d1") /\ "d1" \notin DOMAIN devices /\ "d1" \in DOMAIN devices') =>
          Defines("d1")]_vars

\* C33: as long as the text property d1/p1 is neither redefined nor deleted,
\* its message list only grows at its end.
C33_MessagesKept ==
    [][(HasProperty("Text", "d1", "p1") /\ ~Defines("d1")) =>
          \/ "d1" \notin DOMAIN devices'
          \/ "p1" \notin DOMAIN dm'[devices'["d1"].Maps]["Text"]
          \/ \A old \in {PropertyOf("Text", "d1", "p1").Messages} :
             \A new \in {dm'[devices'["d1"].Maps]["Text"]["p1"].Messages} :
                Len(old) <= Len(new) /\ SubSeq(new, 1, Len(old)) = old]_vars

\* C35: when no dispatcher is between the opening of a sink file and the end
\* of its copy, a value of the BLOB property d1/p1 that records a path
\* records the size of the file at that path.
C35_FileHoldsRecordedSize ==
    ((\A i \in Conns : dpc[i] \notin {"writers", "range", "visit", "copy", "copied"})
       /\ HasProperty("Blob", "d1", "p1")) =>
       \A v \in DOMAIN vm[PropertyOf("Blob", "d1", "p1").Values] :
          \A rec \in {vm[PropertyOf("Blob", "d1", "p1").Values][v]} :
             rec.Value # "" =>
                (rec.Value \in DOMAIN files /\ Len(files[rec.Value]) = rec.Size)

\* C36: when no Connect is under way, every stream the client has opened,
\* other than the one it holds, has been closed, and the workers of a
\* connection other than the current one have a closed stream to end on.
C36_OneConnectionLive ==
    upc \notin ConnectPcs =>
    \A i \in 1..nconn :
       i # conn => (i \in connClosed \/ (rpc[i] = "done" /\ dpc[i] = "done" /\ wpc[i] = "done"))

\* C37: a facade command call made while the client is not connected comes
\* back: the caller is never parked on the nil c.write of a client that has
\* no channels, and never panics on the closed c.write of a disconnected one.
C37_CallReturnsWhenNotConnected ==
    /\ ~(upc = "blocked" /\ write = 0)
    /\ panic # "user: send on closed channel"

\* C38: a CloseBlobStream call with the id of a subscription never returns
\* from its lookups leaving the subscription in place: when such a call is
\* back, the id's pipe writer is closed and the id is out of the writers map.
C38_SubscriptionReleased ==
    [][\A c \in Subscribers : \A id \in DOMAIN subs.key :
          (CloseBlobStreamLoad(c, "d1", "p1", "v1", id) /\ spc'[c].pc = "idle" /\ panic' = "") =>
             /\ pipes'[id].wclosed
             /\ id \notin Writers(subs.key[id])']_vars

\* where a dispatcher is inside the loop of setBlobVector
LoopPcs == {"blob", "writers", "range", "visit", "copy", "copied"}

\* C39: inside one setBLOBVector every step of the loop stays in the loop,
\* at the same entry or at the next one, whether the entry was skipped, failed
\* or was written; an entry that is skipped or fails leaves every BlobValue
\* as it was; and the steps after the last entry write the property with the
\* element's state and its message appended, and store the Device.
C39_LoopGoesOn ==
    [][\A i \in Conns : \A l \in {dloc[i]} :
          /\ (dpc[i] \in LoopPcs /\ <<dpc[i], dloc[i]>>' # <<dpc[i], l>>) =>
                IF dpc[i] = "blob" /\ l.j > Len(l.item.Items)
                   THEN /\ dpc'[i] = "store"
                        /\ l.item.Name \in DOMAIN dm'[l.device.Maps]["Blob"]
                        /\ \A pr \in {dm'[l.device.Maps]["Blob"][l.item.Name]} :
                              /\ pr.State = l.item.State
                              /\ pr.Messages =
                                    appendMessage(l.prop.Messages, l.item.Message)
                   ELSE /\ dpc'[i] \in LoopPcs
                        /\ dloc'[i].item = l.item
                        /\ dloc'[i].j \in {l.j, l.j + 1}
                        /\ (dloc'[i].j = l.j + 1 /\ dpc[i] # "copied") => vm' = vm
          /\ (dpc[i] = "store" /\ l.item.type = "setBLOBVector" /\ dpc'[i] # "store") =>
                /\ dpc'[i] = "recv"
                /\ l.item.Device \in DOMAIN devices'
                /\ devices'[l.item.Device] = l.device]_vars

\* the element of three entries is done on a connection whose subscriber
\* closed its reader: the first entry for v1 failed in the copy, the second
\* one for v1 was still taken up (its file is there) and failed as well, the
\* value records no file, and the state and the message are stored
C39_Witness ==
    \E i \in Conns :
       /\ dpc[i] = "recv" /\ Len(applied[i]) = 2
       /\ Len(applied[i][2].Items) = 3
       /\ \E w \in DOMAIN pipes : pipes[w].rclosed
       /\ HasProperty("Blob", "d1", "p1")
       /\ PropertyOf("Blob", "d1", "p1").State = "Alert"
       /\ PropertyOf("Blob", "d1", "p1").Messages # <<>>
       /\ "d1_p1_v1.fits" \in DOMAIN files /\ files["d1_p1_v1.fits"] = <<>>
       /\ "d1_p1_v1.bin" \in DOMAIN files
       /\ vm[PropertyOf("Blob", "d1", "p1").Values]["v1"].Value = ""

\* C40: the read channel of a connection never holds more than bufferSize
\* elements; while it is full, the reader that has decoded an element keeps
\* that element in hand and stays at its send; and every element decoded is
\* among those applied, those in the channel or in the reader's hand.
C40_InboundBounded ==
    /\ [](\A i \in Conns :
             /\ Len(inq[i]) <= bufferSize
             /\ readLog[i] = applied[i] \o inq[i] \o Pending(i))
    /\ [][\A i \in Conns :
             (rpc[i] = "send" /\ Len(inq[i]) = bufferSize) =>
                (rpc'[i] = "send" /\ ritem'[i] = ritem[i])]_vars

\* the channel is full again after the dispatcher took an element from the
\* full channel and the waiting reader put its own behind
C40_Witness ==
    \E i \in Conns :
       /\ Len(inq[i]) = bufferSize /\ bufferSize > 0
       /\ Len(applied[i]) = 1
       /\ readLog[i] = applied[i] \o inq[i]

-----------------------------------------------------------------------------
(* Disconnect and the registry *)

DiscPcs == {"disc", "disc_range", "disc_check", "disc_close", "disc_nil", "disc_read", "disc_write"}

\* a Disconnect has closed the stream and returned, no call is in progress,
\* Connect has not been called again and no earlier stream was left open
Disconnected ==
    /\ panic = "" /\ conn = 0 /\ nconn > 0
    /\ \A i \in 1..nconn : i \in connClosed
    /\ upc = "idle"
    /\ \A i \in Conns : rpc[i] \notin DiscPcs

\* C1: once Disconnect has returned, the registry is empty, and it stays
\* empty until the next Connect: no element still buffered on the inbound
\* queue is applied to it.
C1_RegistryEmptyAfterDisconnect == Disconnected => devices = EmptyMap

\* C5: a caller parked on the full outbound queue when Disconnect closes it
\* sees the closure and returns: the send does not panic.
C5_BlockedSenderReturns ==
    ~(upc = "blocked" /\ panic = "user: send on closed channel")

\* C6: when the reader of the latest connection returns after io.EOF, every
\* earlier connection being closed and no other Disconnect in progress, its
\* Disconnect has cleared the registry, closed the connection's stream and
\* both of its queues, and IsConnected is false.
C6_EOFDisconnects ==
    [][\A i \in Conns :
          (rpc[i] # "done" /\ rpc'[i] = "done" /\ upc' \notin DiscPcs
             /\ i = nconn
             /\ \A j \in 1..(i - 1) : j \in connClosed /\ rpc'[j] \notin DiscPcs)
          => /\ devices' = EmptyMap
             /\ i \in connClosed' /\ i \in inClosed' /\ i \in outClosed'
             /\ conn' = 0]_vars

\* C4: after Disconnect has closed a connection, its socket reader and its
\* socket writer both end, unless the process has crashed.
C4_WorkersEnd ==
    \A i \in Conns :
        (i \in connClosed) ~> ((rpc[i] = "done" /\ wpc[i] = "done") \/ panic # "")

=============================================================================
